---- MODULE Spec2Model ----
(***************************************************************************)
(* TALON (src/talon/talon.py): the shared identifier counters, the         *)
(* per-shard annotation graph and read classifier, the queue/listener that *)
(* writes the intermediate logs, and the batch database update.            *)
(*                                                                         *)
(* The specifications of the module:                                       *)
(*   SpecCounter    Counter.increment()/value() at the granularity of the  *)
(*                  lock and of the reads and writes of the shared value;  *)
(*   SpecShard      one shard classifying a sequence of reads;             *)
(*   SpecIsoforms   the same on a graph of a gene with several isoforms;   *)
(*   SpecFusion     the same on a graph of two neighbouring genes;         *)
(*   SpecGeneMatch  find_gene_match_on_vertex_basis;                       *)
(*   SpecOverlap    search_for_overlap_with_gene;                          *)
(*   SpecMonoexon   the same on single-exon reads of both strands;         *)
(*   SpecPaths      the same on a graph with edge IDs of two digits;       *)
(*   SpecEnds       the permissive matching of a read's ends;              *)
(*   SpecDelta      compute_delta;                                         *)
(*   SpecInputs     check_inputs and the start of main();                  *)
(*   Spec           main(), the pool jobs, the listener and                *)
(*                  update_database;                                       *)
(*   FairSpec       Spec under fair scheduling of main and the jobs.       *)
(***************************************************************************)
EXTENDS Integers, Sequences, FiniteSets, TLC

VARIABLES
    \* ---- SpecCounter: one Counter object shared by the processes
    cval,       \* Counter.val.value (a C int in shared memory)
    clock,      \* Counter.lock: the process holding it, or NoProc
    cpc,        \* per process: where it stands inside increment()/value()
    ctmp,       \* per process: the value read by "self.val.value += 1"
    cret,       \* per process: the values its increment() calls returned
    cseed,      \* the initval the Counter was constructed with
    cobs        \* per process: the last result of value(), and the number
                \* of increment() calls that had returned when it was read

\* One shard classifying reads (SpecShard).
VARIABLES
    shard,      \* the shard's data structures and the counters (the record s
                \* of the classifier)
    hist        \* per classified read: the read and its annotation_info

\* The run: main, the pool's jobs, the listener and update_database (Spec).
VARIABLES
    mpc,        \* where main stands
    threads,    \* the number of processes of the pool
    counters,   \* the values of the six shared Counter objects
    datasets,   \* main's dataset_db_entries
    jobs,       \* per parallel_talon job: its state, its struct_collection
                \* and the reads it has not processed yet
    nread,      \* per parallel_talon job: the records of its file that its
                \* loop has processed
    queue,      \* the manager.Queue: the messages put and not yet got
    taken,      \* the messages the listener got, in the order it got them
    lpc,        \* where the listener stands
    lstop,      \* the message on which the listener stopped, and whether
                \* its wait_until had passed
    files,      \* the outfiles: per file the lines written to it
    db,         \* the database as a new connection sees it
    txn,        \* the database as update_database's connection sees it
    upc,        \* where update_database stands
    steps,      \* the statements update_database has completed
    reported,   \* the tables check_database_integrity logged as not matching
    options     \* main's options, with what check_inputs made of them

cvars == <<cval, clock, cpc, ctmp, cret, cseed, cobs>>
svars == <<shard, hist>>
mvars == <<mpc, threads, datasets>>
wvars == <<counters, jobs, nread>>
lvars == <<queue, taken, lpc, lstop, files>>
uvars == <<db, txn, upc, steps, reported>>
pvars == <<mvars, wvars, lvars, uvars>>
noncvars == <<svars, pvars, options>>
nonsvars == <<cvars, pvars, options>>
nonpvars == <<cvars, svars, options>>

vars == <<cval, clock, cpc, ctmp, cret, cseed, cobs, shard, hist,
          mpc, threads, counters, datasets, jobs, nread, queue, taken, lpc, lstop, files,
          db, txn, upc, steps, reported, options>>

(***************************************************************************)
(* Bounds of the model.                                                    *)
(***************************************************************************)
\* processes that use a Counter, and increment() calls they make in all
NumProcs == 2
MaxIncr == 3

(***************************************************************************)
(* mp.Value("i", initval): typecode "i" is a signed C int; ctypes stores   *)
(* an out-of-range Python integer without an overflow check, keeping its   *)
(* low 32 bits.                                                            *)
(***************************************************************************)
CIntMax == 2147483647
CIntMin == (-CIntMax) - 1
\* v + 1 in 32-bit two's complement
CIntInc(v) == IF v = CIntMax THEN CIntMin ELSE v + 1

NoProc == 0
Procs == 1..NumProcs

\* no shard has been prepared
NoShard == [loaded |-> FALSE]

\* the specifications leave the parts they are not about in these states
CounterOff ==
    /\ cseed = 0 /\ cval = 0 /\ clock = NoProc
    /\ cpc = [p \in Procs |-> "idle"]
    /\ ctmp = [p \in Procs |-> 0]
    /\ cret = [p \in Procs |-> <<>>]
    /\ cobs = [p \in Procs |-> <<>>]

ShardOff == shard = NoShard /\ hist = <<>>

PipelineOff ==
    /\ mpc = "off" /\ threads = 0 /\ datasets = <<>>
    /\ counters = <<>> /\ jobs = <<>> /\ nread = <<>>
    /\ queue = <<>> /\ taken = <<>> /\ lpc = "off" /\ lstop = <<>> /\ files = <<>>
    /\ db = <<>> /\ txn = <<>> /\ upc = "off" /\ steps = <<>> /\ reported = {}
    /\ options = <<>>

\* The initial values a run can construct the Counter with (get_counters
\* reads them from the counters table).
CounterSeeds == {0, 7, CIntMax - 1}

----------------------------------------------------------------------------
(***************************************************************************)
(* SpecCounter                                                             *)
(***************************************************************************)
CounterInit ==
    /\ cseed \in CounterSeeds
    /\ cval = cseed
    /\ clock = NoProc
    /\ cpc = [p \in Procs |-> "idle"]
    /\ ctmp = [p \in Procs |-> 0]
    /\ cret = [p \in Procs |-> <<>>]
    /\ cobs = [p \in Procs |-> <<>>]
    /\ ShardOff
    /\ PipelineOff

\* "with self.lock:" blocks until no process holds the lock.
LockFreeNoLock(p) == TRUE
LockFree(p) == clock = NoProc

RECURSIVE SumLen(_, _)
SumLen(f, S) ==
    IF S = {} THEN 0
    ELSE LET x == CHOOSE y \in S : TRUE IN Len(f[x]) + SumLen(f, S \ {x})

\* the number of increment() calls that have returned so far
NumReturned == SumLen(cret, Procs)

\* the number of increment() calls that have started so far
NumStarted == NumReturned + Cardinality({q \in Procs : cpc[q] \in {"inc_read", "inc_write", "inc_return"}})

\* increment(): "with self.lock:"
IncAcquire(p) ==
    /\ cpc[p] = "idle"
    /\ NumStarted < MaxIncr
    /\ LockFree(p)
    /\ clock' = p
    /\ cpc' = [cpc EXCEPT ![p] = "inc_read"]
    /\ UNCHANGED <<cval, ctmp, cret, cseed, cobs>>
    /\ UNCHANGED noncvars

\* "self.val.value += 1", the read of the shared value
IncRead(p) ==
    /\ cpc[p] = "inc_read"
    /\ ctmp' = [ctmp EXCEPT ![p] = cval]
    /\ cpc' = [cpc EXCEPT ![p] = "inc_write"]
    /\ UNCHANGED <<cval, clock, cret, cseed, cobs>>
    /\ UNCHANGED noncvars

\* "self.val.value += 1", the write back
IncWrite(p) ==
    /\ cpc[p] = "inc_write"
    /\ cval' = CIntInc(ctmp[p])
    /\ cpc' = [cpc EXCEPT ![p] = "inc_return"]
    /\ UNCHANGED <<clock, ctmp, cret, cseed, cobs>>
    /\ UNCHANGED noncvars

\* "return self.val.value", leaving the with block
IncReturn(p) ==
    /\ cpc[p] = "inc_return"
    /\ cret' = [cret EXCEPT ![p] = Append(@, cval)]
    /\ clock' = IF clock = p THEN NoProc ELSE clock
    /\ cpc' = [cpc EXCEPT ![p] = "idle"]
    /\ UNCHANGED <<cval, ctmp, cseed, cobs>>
    /\ UNCHANGED noncvars

\* value(): "with self.lock: return self.val.value"
ValueAcquire(p) ==
    /\ cpc[p] = "idle"
    /\ cobs[p] = <<>>
    /\ LockFree(p)
    /\ clock' = p
    /\ cpc' = [cpc EXCEPT ![p] = "val_return"]
    /\ UNCHANGED <<cval, ctmp, cret, cseed, cobs>>
    /\ UNCHANGED noncvars

ValueReturn(p) ==
    /\ cpc[p] = "val_return"
    /\ cobs' = [cobs EXCEPT ![p] = <<cval, NumReturned>>]
    /\ clock' = IF clock = p THEN NoProc ELSE clock
    /\ cpc' = [cpc EXCEPT ![p] = "idle"]
    /\ UNCHANGED <<cval, ctmp, cret, cseed>>
    /\ UNCHANGED noncvars

CounterNext ==
    \E p \in Procs :
        \/ IncAcquire(p)
        \/ IncRead(p)
        \/ IncWrite(p)
        \/ IncReturn(p)
        \/ ValueAcquire(p)
        \/ ValueReturn(p)

SpecCounter == CounterInit /\ [][CounterNext]_vars

----------------------------------------------------------------------------
(***************************************************************************)
(* Properties of the Counter (SpecCounter)                                  *)
(***************************************************************************)
\* the increment() calls that have returned: <<process, index of the call>>
ReturnedCalls == {c \in Procs \X (1..MaxIncr) : c[2] <= Len(cret[c[1]])}
ReturnedValues == {cret[c[1]][c[2]] : c \in ReturnedCalls}

\* C1: under any interleaving of increment() calls made by concurrent
\* processes on the same counter, no two calls return the same value.
C1_UniqueIds ==
    \A c \in ReturnedCalls : \A d \in ReturnedCalls :
        c # d => cret[c[1]][c[2]] # cret[d[1]][d[2]]

\* two processes have completed calls that were interleaved (two calls of
\* the first process surround a call of the second)
C1_Witness ==
    /\ Len(cret[1]) = 2
    /\ Len(cret[2]) = 1
    /\ cret[1][1] < cret[2][1]
    /\ cret[2][1] < cret[1][2]

\* v - cseed when v is at or above the (non-negative) seed, -1 when v is below
OffsetFromSeed(v) == IF v >= cseed THEN v - cseed ELSE -1

\* C2: for a counter seeded with v0, after any n increment() calls the set
\* of returned values is exactly {v0+1, ..., v0+n}, value() returns v0+n,
\* and the counter never went below its seed.
C2_ExactRange ==
    /\ (clock = NoProc) =>
          /\ {OffsetFromSeed(v) : v \in ReturnedValues} = 1..NumReturned
          /\ OffsetFromSeed(cval) = NumReturned
    /\ \A p \in Procs :
          cobs[p] # <<>> => OffsetFromSeed(cobs[p][1]) = cobs[p][2]
    /\ cval >= cseed

----------------------------------------------------------------------------
(***************************************************************************)
(* The annotation graph of one shard and the read classifier.              *)
(*                                                                         *)
(* The classifier's functions are operators on a record s that carries the *)
(* shard's data structures, the shared counters and, in s.ret, the value   *)
(* the function returns:                                                   *)
(*   s.location_dict   chromosome/position -> vertex   (in insertion order)*)
(*   s.edge_dict       (v1, v2, edge_type) -> edge     (in insertion order)*)
(*   s.transcript_dict frozenset(edge IDs) -> transcript (insertion order) *)
(*   s.tmp_t, s.tmp_monoexon, s.tmp_gene   the temporary SQL tables (rows  *)
(*                     in rowid order)                                     *)
(*   s.vertex_2_gene   the set of <<vertex, gene, strand>>                 *)
(*   s.gene_starts, s.gene_ends   gene -> position -> vertex               *)
(*   s.cnt             the six shared counters                             *)
(*   s.run_info        cutoff_5p, cutoff_3p, create_novel_spliced_genes    *)
(*   s.group_pick      which row of a GROUP BY group supplies the bare     *)
(*                     columns during this call ("first" or "last": SQLite *)
(*                     leaves it open)                                     *)
(* Python's None is None for identifiers and the empty tuple for optional  *)
(* numbers; entries created during the run have novel = TRUE (they are the *)
(* dict-typed entries, the loaded ones are sqlite3.Row).                   *)
(***************************************************************************)
None == 0
NoneNum == <<>>
Some(x) == <<x>>

\* In at value: a value several places of a function's body use
Let(value, In(_)) == In(value)

Abs(x) == IF x < 0 THEN -x ELSE x
Min2(a, b) == IF a < b THEN a ELSE b
Max2(a, b) == IF a > b THEN a ELSE b
Last(q) == q[Len(q)]

\* ---- str(), ",".join(), str.startswith(), str.endswith(), str.zfill()
RECURSIVE StrNat(_)
StrNat(n) ==
    LET d == <<"0", "1", "2", "3", "4", "5", "6", "7", "8", "9">>[(n % 10) + 1]
    IN IF n < 10 THEN <<d>> ELSE StrNat(n \div 10) \o <<d>>

Str(n) == IF n < 0 THEN <<"-">> \o StrNat(-n) ELSE StrNat(n)

RECURSIVE JoinComma(_)
JoinComma(strs) ==
    IF Len(strs) = 0 THEN <<>>
    ELSE IF Len(strs) = 1 THEN strs[1]
    ELSE strs[1] \o <<",">> \o JoinComma(Tail(strs))

MapStr(ids) == [i \in 1..Len(ids) |-> Str(ids[i])]

StartsWith(str, pre) ==
    /\ Len(pre) <= Len(str)
    /\ SubSeq(str, 1, Len(pre)) = pre

\* a comparison of whole strings in the place of str.endswith(suf)
EndsWithWhole(str, suf) == str = suf

EndsWith(str, suf) ==
    /\ Len(suf) <= Len(str)
    /\ SubSeq(str, Len(str) - Len(suf) + 1, Len(str)) = suf

RECURSIVE ZFill(_, _)
ZFill(str, width) == IF Len(str) >= width THEN str ELSE ZFill(<<"0">> \o str, width)

\* ---- sequences used as insertion-ordered dicts
SeqToSet(q) == {q[i] : i \in 1..Len(q)}

RECURSIVE SelectIdx(_, _, _)
\* the indices of idxs (ascending from lo) as a sequence
SelectIdx(idxs, lo, hi) ==
    IF lo > hi THEN <<>>
    ELSE IF lo \in idxs THEN <<lo>> \o SelectIdx(idxs, lo + 1, hi)
    ELSE SelectIdx(idxs, lo + 1, hi)

\* ---- compute_delta
\* compute_delta without the sign
compute_delta_unsigned(orig_pos, new_pos, strand) ==
    IF strand \in {"+", "-"} THEN Abs(orig_pos - new_pos) ELSE "ValueError"

compute_delta(orig_pos, new_pos, strand) ==
    LET abs_dist == Abs(orig_pos - new_pos)
    IN IF strand = "+"
       THEN (IF new_pos < orig_pos THEN (-1) * abs_dist ELSE abs_dist)
       ELSE IF strand = "-"
       THEN (IF new_pos < orig_pos THEN abs_dist ELSE (-1) * abs_dist)
       ELSE "ValueError"

\* ---- search_for_vertex_at_pos: the vertex ID at the position, or None
search_for_vertex_at_pos(chromosome, position, location_dict) ==
    LET hits == {i \in 1..Len(location_dict) :
                    /\ location_dict[i].chromosome = chromosome
                    /\ location_dict[i].position = position}
    IN IF hits = {} THEN None
       ELSE location_dict[CHOOSE i \in hits : TRUE].location_ID

\* a search on the edge's first vertex and type alone
search_for_edge_from_vertex_1(vertex_1, vertex_2, edge_type, edge_dict) ==
    LET hits == {i \in 1..Len(edge_dict) :
                    /\ edge_dict[i].v1 = vertex_1
                    /\ edge_dict[i].edge_type = edge_type}
    IN IF hits = {} THEN None
       ELSE edge_dict[CHOOSE i \in hits : TRUE].edge_ID

\* ---- search_for_edge: the edge ID under (vertex_1, vertex_2, edge_type), or None
search_for_edge(vertex_1, vertex_2, edge_type, edge_dict) ==
    LET hits == {i \in 1..Len(edge_dict) :
                    /\ edge_dict[i].v1 = vertex_1
                    /\ edge_dict[i].v2 = vertex_2
                    /\ edge_dict[i].edge_type = edge_type}
    IN IF hits = {} THEN None
       ELSE edge_dict[CHOOSE i \in hits : TRUE].edge_ID

\* d[key] = value on an insertion-ordered dict: an existing key keeps its
\* place and gets the new value, a new key goes to the end
DictPut(d, SameKey(_), value) ==
    LET hits == {i \in 1..Len(d) : SameKey(d[i])}
    IN IF hits = {} THEN Append(d, value)
       ELSE [i \in 1..Len(d) |-> IF i \in hits THEN value ELSE d[i]]

\* create_vertex with the position alone as the key of the location
create_vertex_by_position(s, chromosome, position) ==
    LET new_ID == CIntInc(s.cnt.vertex)
        new_vertex == [location_ID |-> new_ID, chromosome |-> "chr1",
                       position |-> position, novel |-> TRUE]
        SameKey(v) == v.position = position
    IN [s EXCEPT !.cnt.vertex = new_ID,
                 !.location_dict = DictPut(@, SameKey, new_vertex),
                 !.ret = new_ID]

\* ---- create_vertex
create_vertex(s, chromosome, position) ==
    LET new_ID == CIntInc(s.cnt.vertex)
        new_vertex == [location_ID |-> new_ID, chromosome |-> chromosome,
                       position |-> position, novel |-> TRUE]
        SameKey(v) == v.chromosome = chromosome /\ v.position = position
    IN [s EXCEPT !.cnt.vertex = new_ID,
                 !.location_dict = DictPut(@, SameKey, new_vertex),
                 !.ret = new_ID]

\* ---- create_edge
create_edge(s, vertex_1, vertex_2, edge_type, strand) ==
    LET new_ID == CIntInc(s.cnt.edge)
        new_edge == [edge_ID |-> new_ID, v1 |-> vertex_1, v2 |-> vertex_2,
                     edge_type |-> edge_type, strand |-> strand, novel |-> TRUE]
        SameKey(e) == e.v1 = vertex_1 /\ e.v2 = vertex_2 /\ e.edge_type = edge_type
    IN [s EXCEPT !.cnt.edge = new_ID,
                 !.edge_dict = DictPut(@, SameKey, new_edge),
                 !.ret = new_ID]

\* ---- create_gene: a new row of the temporary gene table
create_gene(s, chromosome, start, end, strand) ==
    LET new_ID == CIntInc(s.cnt.genes)
        new_gene == [gene_ID |-> new_ID, chromosome |-> chromosome,
                     start |-> Min2(start, end), end |-> Max2(start, end),
                     strand |-> strand]
    IN [s EXCEPT !.cnt.genes = new_ID,
                 !.tmp_gene = Append(@, new_gene),
                 !.ret = new_ID]

\* ---- create_transcript: transcript_dict[frozenset(edge_IDs)] = new_transcript
\* and a new row of tmp_t; returns the new transcript's ID
create_transcript(s, strand, chromosome, start_pos, end_pos, gene_ID, edge_IDs, vertex_IDs) ==
    LET new_ID == CIntInc(s.cnt.transcripts)
        jn_path == IF Len(edge_IDs) > 1
                   THEN Some(JoinComma(MapStr(SubSeq(edge_IDs, 2, Len(edge_IDs) - 1))))
                   ELSE NoneNum
        path_key == SeqToSet(edge_IDs)
        new_transcript == [key |-> path_key,
                           transcript_ID |-> new_ID,
                           gene_ID |-> gene_ID,
                           jn_path |-> jn_path,
                           start_exon |-> edge_IDs[1],
                           end_exon |-> Last(edge_IDs),
                           start_vertex |-> vertex_IDs[1],
                           end_vertex |-> Last(vertex_IDs),
                           n_exons |-> (Len(edge_IDs) + 1) \div 2,
                           chromosome |-> chromosome,
                           start_pos |-> start_pos,
                           end_pos |-> end_pos,
                           novel |-> TRUE]
        SameKey(t) == t.key = path_key
        new_t == [gene_ID |-> gene_ID, transcript_ID |-> new_ID,
                  chromosome |-> chromosome, strand |-> strand,
                  min_pos |-> Min2(start_pos, end_pos),
                  max_pos |-> Max2(start_pos, end_pos)]
    IN [s EXCEPT !.cnt.transcripts = new_ID,
                 !.transcript_dict = DictPut(@, SameKey, new_transcript),
                 !.tmp_t = Append(@, new_t),
                 !.ret = new_ID]

\* ---- permissive_vertex_search: <<vertex ID or None, distance or NoneNum>>
RECURSIVE permissive_scan(_, _, _, _, _, _, _, _, _)
\* the loop "for dist in range(1, max_dist)"
permissive_scan(chromosome, position, strand, locations, direction_priority, search_window_start, search_window_end, dist, max_dist) ==
    IF dist >= max_dist THEN <<None, NoneNum>>
    ELSE LET pos_a == position + dist * direction_priority
             pos_b == position - dist * direction_priority
             InWindow(q) == q > search_window_start /\ q < search_window_end
             match_a == IF InWindow(pos_a)
                        THEN search_for_vertex_at_pos(chromosome, pos_a, locations)
                        ELSE None
             match_b == IF InWindow(pos_b)
                        THEN search_for_vertex_at_pos(chromosome, pos_b, locations)
                        ELSE None
         IN IF match_a # None
            THEN <<match_a, Some(compute_delta(pos_a, position, strand))>>
            ELSE IF match_b # None
            THEN <<match_b, Some(compute_delta(pos_b, position, strand))>>
            ELSE permissive_scan(chromosome, position, strand, locations,
                                 direction_priority, search_window_start,
                                 search_window_end, dist + 1, max_dist)

\* a search that scans twice the cutoff distance
permissive_vertex_search_twice(chromosome, position, strand, sj_pos, pos_type, locations, run_info) ==
    LET exact == search_for_vertex_at_pos(chromosome, position, locations)
        max_dist == 2 * (IF pos_type = "start" THEN run_info.cutoff_5p ELSE run_info.cutoff_3p)
        upstream == (strand = "+" /\ pos_type = "start") \/ (strand = "-" /\ pos_type = "end")
    IN IF exact # None THEN <<exact, Some(0)>>
       ELSE permissive_scan(chromosome, position, strand, locations,
                            IF upstream THEN -1 ELSE 1,
                            IF upstream THEN position - max_dist ELSE sj_pos,
                            IF upstream THEN sj_pos ELSE position + max_dist,
                            1, max_dist)

\* a search that looks first in the direction away from degradation
permissive_vertex_search_reversed(chromosome, position, strand, sj_pos, pos_type, locations, run_info) ==
    LET exact == search_for_vertex_at_pos(chromosome, position, locations)
        max_dist == IF pos_type = "start" THEN run_info.cutoff_5p ELSE run_info.cutoff_3p
        upstream == (strand = "+" /\ pos_type = "start") \/ (strand = "-" /\ pos_type = "end")
    IN IF exact # None THEN <<exact, Some(0)>>
       ELSE permissive_scan(chromosome, position, strand, locations,
                            IF upstream THEN 1 ELSE -1,
                            IF upstream THEN position - max_dist ELSE sj_pos,
                            IF upstream THEN sj_pos ELSE position + max_dist,
                            1, max_dist)

permissive_vertex_search(chromosome, position, strand, sj_pos, pos_type, locations, run_info) ==
    LET exact == search_for_vertex_at_pos(chromosome, position, locations)
        max_dist == IF pos_type = "start" THEN run_info.cutoff_5p ELSE run_info.cutoff_3p
        upstream == (strand = "+" /\ pos_type = "start") \/ (strand = "-" /\ pos_type = "end")
        direction_priority == IF upstream THEN -1 ELSE 1
        search_window_start == IF upstream THEN position - max_dist ELSE sj_pos
        search_window_end == IF upstream THEN sj_pos ELSE position + max_dist
    IN IF exact # None THEN <<exact, Some(0)>>
       ELSE permissive_scan(chromosome, position, strand, locations,
                            direction_priority, search_window_start,
                            search_window_end, 1, max_dist)

\* ---- permissive_match_with_gene_priority:
\* <<vertex ID or None, distance or NoneNum, known (1 or 0)>>
RECURSIVE gene_priority_scan(_, _, _, _, _, _, _)
\* the loop "for known_location in gene_locs[gene_ID]"; acc is
\* <<min_abs_dist, best_dist, closest_vertex>>
gene_priority_scan(locs, i, position, strand, search_window_start, search_window_end, acc) ==
    IF i > Len(locs) THEN acc
    ELSE LET known_location == locs[i].position
             curr_dist == compute_delta(known_location, position, strand)
             skip == known_location < search_window_start \/ known_location > search_window_end
             acc1 == IF ~skip /\ Abs(curr_dist) < acc[1]
                     THEN <<Abs(curr_dist), Some(curr_dist), locs[i].vertex>>
                     ELSE acc
         IN gene_priority_scan(locs, i + 1, position, strand,
                               search_window_start, search_window_end, acc1)

\* gene_locs[gene_ID], in the dict's order
GeneLocs(gene_locs, gene_ID) ==
    LET idxs == {i \in 1..Len(gene_locs) : gene_locs[i].gene = gene_ID}
        order == SelectIdx(idxs, 1, Len(gene_locs))
    IN [k \in 1..Len(order) |-> gene_locs[order[k]]]

\* an end match that never looks at the gene's known starts/ends
permissive_match_without_priority(chromosome, position, strand, sj_pos, pos_type, gene_ID, gene_locs, locations, run_info) ==
    Let(permissive_vertex_search(chromosome, position, strand, sj_pos, pos_type,
                                 locations, run_info),
        LAMBDA fallback : <<fallback[1], fallback[2], 0>>)

permissive_match_with_gene_priority(chromosome, position, strand, sj_pos, pos_type, gene_ID, gene_locs, locations, run_info) ==
    LET exact == search_for_vertex_at_pos(chromosome, position, locations)
        max_dist == IF pos_type = "start" THEN run_info.cutoff_5p ELSE run_info.cutoff_3p
        upstream == (strand = "+" /\ pos_type = "start") \/ (strand = "-" /\ pos_type = "end")
        search_window_start == IF upstream THEN position - max_dist ELSE sj_pos
        search_window_end == IF upstream THEN sj_pos ELSE position + max_dist
    IN Let(GeneLocs(gene_locs, gene_ID), LAMBDA locs :
       Let(gene_priority_scan(locs, 1, position, strand, search_window_start,
                              search_window_end, <<max_dist + 1, NoneNum, None>>),
           LAMBDA best :
       IF exact # None
       THEN (IF Len(locs) > 0 /\ \E i \in 1..Len(locs) : locs[i].position = position
             THEN <<exact, Some(0), 1>>
             ELSE <<exact, Some(0), 0>>)
       ELSE IF Len(locs) > 0 /\ best[1] <= max_dist
       THEN <<best[3], best[2], 1>>
       ELSE Let(permissive_vertex_search(chromosome, position, strand, sj_pos,
                                         pos_type, locations, run_info),
                LAMBDA fallback : <<fallback[1], fallback[2], 0>>)))

\* ---- match_splice_vertices: s.ret = <<vertex_matches, novelty>>
RECURSIVE match_splice_vertices_loop(_, _, _, _, _, _)
match_splice_vertices_loop(s, chromosome, positions, curr_index, vertex_matches, novelty) ==
    IF curr_index > Len(positions) - 1
    THEN [s EXCEPT !.ret = <<vertex_matches, novelty>>]
    ELSE LET position == positions[curr_index]
             vertex_match == search_for_vertex_at_pos(chromosome, position, s.location_dict)
         IN IF vertex_match = None
            THEN Let(create_vertex(s, chromosome, position), LAMBDA s1 :
                     match_splice_vertices_loop(s1, chromosome, positions, curr_index + 1,
                                                Append(vertex_matches, s1.ret),
                                                Append(novelty, 1)))
            ELSE match_splice_vertices_loop(s, chromosome, positions, curr_index + 1,
                                            Append(vertex_matches, vertex_match), Append(novelty, 0))

match_splice_vertices(s, chromosome, positions, strand) ==
    match_splice_vertices_loop(s, chromosome, positions, 2, <<>>, <<>>)

\* ---- match_monoexon_vertices: s.ret = <<vertex_matches, novelty, diff_5p, diff_3p>>
match_monoexon_vertices(s, chromosome, positions, strand) ==
    Let(permissive_vertex_search(chromosome, positions[1], strand,
                                 positions[2], "start", s.location_dict, s.run_info),
        LAMBDA start_search :
    Let(IF start_search[1] = None
        THEN create_vertex(s, chromosome, positions[1])
        ELSE [s EXCEPT !.ret = start_search[1]],
        LAMBDA s1 :
    Let(permissive_vertex_search(chromosome, positions[2], strand,
                                 positions[1], "end", s1.location_dict, s1.run_info),
        LAMBDA end_search :
    Let(IF end_search[1] = None
        THEN create_vertex(s1, chromosome, positions[2])
        ELSE [s1 EXCEPT !.ret = end_search[1]],
        LAMBDA s2 :
        [s2 EXCEPT !.ret = << <<s1.ret, s2.ret>>,
                             <<IF start_search[1] = None THEN 1 ELSE 0,
                               IF end_search[1] = None THEN 1 ELSE 0>>,
                             start_search[2], end_search[2] >>]))))

\* ---- match_or_create_edge: s.ret = <<edge ID, novelty>>
match_or_create_edge(s, vertex_1, vertex_2, edge_type, strand) ==
    LET edge_match == search_for_edge(vertex_1, vertex_2, edge_type, s.edge_dict)
    IN IF edge_match = None
       THEN Let(create_edge(s, vertex_1, vertex_2, edge_type, strand),
                LAMBDA s1 : [s1 EXCEPT !.ret = <<s1.ret, 1>>])
       ELSE [s EXCEPT !.ret = <<edge_match, 0>>]

\* ---- match_all_splice_edges (first_type = "intron") and
\* match_all_transcript_edges (first_type = "exon"): s.ret = <<edge_matches, novelty>>
RECURSIVE match_edges_loop(_, _, _, _, _, _, _, _)
match_edges_loop(s, vertices, strand, index_1, first_type, other_type, edge_matches, novelty) ==
    IF index_1 > Len(vertices) - 1
    THEN [s EXCEPT !.ret = <<edge_matches, novelty>>]
    ELSE LET edge_type == IF (index_1 - 1) % 2 # 0 THEN other_type ELSE first_type
         IN Let(match_or_create_edge(s, vertices[index_1], vertices[index_1 + 1],
                                     edge_type, strand),
                LAMBDA s1 :
                match_edges_loop(s1, vertices, strand, index_1 + 1, first_type, other_type,
                                 Append(edge_matches, s1.ret[1]), Append(novelty, s1.ret[2])))

match_all_splice_edges(s, vertices, strand) ==
    match_edges_loop(s, vertices, strand, 1, "intron", "exon", <<>>, <<>>)

match_all_transcript_edges(s, vertices, strand) ==
    match_edges_loop(s, vertices, strand, 1, "exon", "intron", <<>>, <<>>)

\* ---- check_all_exons_known, check_all_exons_novel, check_all_SJs_known
RECURSIVE SumSeq(_)
SumSeq(q) == IF Len(q) = 0 THEN 0 ELSE q[1] + SumSeq(Tail(q))

\* novelty[start::2] with a 0-based start
EveryOther(novelty, start) ==
    LET idxs == {i \in 1..Len(novelty) : i - 1 >= start /\ (i - 1 - start) % 2 = 0}
        order == SelectIdx(idxs, 1, Len(novelty))
    IN [k \in 1..Len(order) |-> novelty[order[k]]]

check_all_exons_known(novelty) ==
    IF Len(novelty) = 1 THEN novelty[1] = 0
    ELSE ~(SumSeq(EveryOther(novelty, 1)) > 0)

check_all_exons_novel(novelty) ==
    IF Len(novelty) = 1 THEN FALSE
    ELSE ~(SumSeq(EveryOther(novelty, 1)) # Len(EveryOther(novelty, 1)))

check_all_SJs_known(novelty) ==
    IF Len(novelty) = 1 THEN novelty[1] = 0
    ELSE ~(SumSeq(EveryOther(novelty, 0)) > 0)

\* a search that never finds a transcript
search_for_no_ISM(edge_IDs, transcript_dict) == SubSeq(transcript_dict, 1, 0)

\* ---- search_for_ISM: the transcripts whose edge set contains every query
\* edge, in the dict's order (the empty sequence stands for None)
search_for_ISM(edge_IDs, transcript_dict) ==
    LET edges == SeqToSet(edge_IDs)
        idxs == {i \in 1..Len(transcript_dict) : edges \subseteq transcript_dict[i].key}
        order == SelectIdx(idxs, 1, Len(transcript_dict))
    IN [k \in 1..Len(order) |-> transcript_dict[order[k]]]

\* ---- get_overlap: the overlap of two intervals given as <<first, second>>
get_overlap(a, b) == Max2(0, Min2(a[2], b[2]) - Max2(a[1], b[1]) + 1)

\* sys.maxsize, the initial min_dist of get_best_match (larger than any
\* distance between two positions)
SysMaxSize == 2147483647

RECURSIVE get_best_match_last_loop(_, _, _, _, _, _)
get_best_match_last_loop(matches, i, min_end, max_end, min_dist, best_match) ==
    IF i > Len(matches) THEN best_match
    ELSE LET dist == Abs(matches[i].max_pos - max_end) + Abs(matches[i].min_pos - min_end)
         IN IF dist <= min_dist
            THEN get_best_match_last_loop(matches, i + 1, min_end, max_end, dist, matches[i])
            ELSE get_best_match_last_loop(matches, i + 1, min_end, max_end, min_dist,
                                          best_match)

\* get_best_match with "dist <= min_dist": the last of the nearest rows
get_best_match_last(matches, min_end, max_end) ==
    get_best_match_last_loop(matches, 1, min_end, max_end, SysMaxSize, matches[1])

\* ---- get_best_match: the first row with the least
\* |max_pos - max_end| + |min_pos - min_end| (rows is not empty)
RECURSIVE get_best_match_loop(_, _, _, _, _, _)
get_best_match_loop(matches, i, min_end, max_end, min_dist, best_match) ==
    IF i > Len(matches) THEN best_match
    ELSE LET dist == Abs(matches[i].max_pos - max_end) + Abs(matches[i].min_pos - min_end)
         IN IF dist < min_dist
            THEN get_best_match_loop(matches, i + 1, min_end, max_end, dist, matches[i])
            ELSE get_best_match_loop(matches, i + 1, min_end, max_end, min_dist, best_match)

get_best_match(matches, min_end, max_end) ==
    get_best_match_loop(matches, 1, min_end, max_end, SysMaxSize, matches[1])

FilterSeq(q, Keep(_)) ==
    LET order == SelectIdx({i \in 1..Len(q) : Keep(q[i])}, 1, Len(q))
    IN [k \in 1..Len(order) |-> q[order[k]]]

\* the WHERE clause of the overlap queries on min_pos/max_pos
SqlOverlaps(row, min_start, max_end) ==
    \/ (row.min_pos <= min_start /\ row.max_pos >= max_end)
    \/ (row.min_pos >= min_start /\ row.max_pos <= max_end)
    \/ (row.min_pos >= min_start /\ row.min_pos <= max_end)
    \/ (row.max_pos >= min_start /\ row.max_pos <= max_end)

RECURSIVE SortedSeq(_)
\* a set of integers as an ascending sequence
SortedSeq(S) ==
    IF S = {} THEN <<>>
    ELSE LET m == CHOOSE x \in S : \A y \in S : x <= y
         IN <<m>> \o SortedSeq(S \ {m})

\* "SELECT ... FROM tmp_t WHERE <overlap> GROUP BY gene_ID": one row per
\* gene, by ascending gene_ID; the bare columns come from one row of the
\* group, which SQLite leaves unspecified (group_pick)
GroupByGene(rows, group_pick) ==
    LET genes == SortedSeq({rows[i].gene_ID : i \in 1..Len(rows)})
        Pick(g) == LET grp == FilterSeq(rows, LAMBDA r : r.gene_ID = g)
                   IN IF group_pick = "first" THEN grp[1] ELSE grp[Len(grp)]
    IN [k \in 1..Len(genes) |-> Pick(genes[k])]

NoGeneList == [is_list |-> FALSE, ids |-> {}]
GeneList(ids) == [is_list |-> TRUE, ids |-> ids]

\* ---- search_for_overlap_with_gene: <<gene_ID, strand>> or <<None, None>>
search_for_overlap_with_gene(s, chromosome, start, end, strand, gene_IDs) ==
    LET min_start == Min2(start, end)
        max_end == Max2(start, end)
    IN Let(IF gene_IDs.is_list
           THEN FilterSeq(s.tmp_t, LAMBDA r : r.gene_ID \in gene_IDs.ids)
           ELSE GroupByGene(
                  FilterSeq(s.tmp_t, LAMBDA r : /\ r.chromosome = chromosome
                                                /\ SqlOverlaps(r, min_start, max_end)),
                  s.group_pick),
           LAMBDA queried :
       Let(IF gene_IDs.is_list
           THEN FilterSeq(queried, LAMBDA r : r.gene_ID \in gene_IDs.ids)
           ELSE queried,
           LAMBDA matches :
       LET same_strand_matches == Len(FilterSeq(matches, LAMBDA r : r.strand = strand))
           keep_strand == IF (strand = "+" /\ same_strand_matches > 0)
                             \/ (strand = "-" /\ same_strand_matches = 0)
                          THEN "+" ELSE "-"
       IN IF Len(matches) = 0 THEN <<None, None>>
          ELSE Let(get_best_match(FilterSeq(matches, LAMBDA r : r.strand = keep_strand),
                                  min_start, max_end),
                   LAMBDA best_match : <<best_match.gene_ID, best_match.strand>>)))

\* a gene match that never flags a fusion: several genes are always candidates
find_gene_match_without_fusion(vertex_IDs, strand, vertex_2_gene) ==
    LET gene_set == {m[2] : m \in {x \in vertex_2_gene :
                         x[3] = strand /\ \E i \in 1..Len(vertex_IDs) : x[1] = vertex_IDs[i]}}
    IN IF gene_set = {}
       THEN [gene |-> None, list |-> [is_list |-> FALSE, ids |-> {}], fusion |-> FALSE]
       ELSE IF Cardinality(gene_set) > 1
       THEN [gene |-> None, list |-> [is_list |-> TRUE, ids |-> gene_set], fusion |-> FALSE]
       ELSE [gene |-> CHOOSE g \in gene_set : TRUE,
             list |-> [is_list |-> FALSE, ids |-> {}], fusion |-> FALSE]

\* a gene match that flags a fusion when no gene has two of the vertices
find_gene_match_by_gene_tally(vertex_IDs, strand, vertex_2_gene) ==
    LET Shared(g) == {i \in 1..Len(vertex_IDs) : <<vertex_IDs[i], g, strand>> \in vertex_2_gene}
        gene_set == {m[2] : m \in {x \in vertex_2_gene :
                         x[3] = strand /\ \E i \in 1..Len(vertex_IDs) : x[1] = vertex_IDs[i]}}
    IN IF gene_set = {}
       THEN [gene |-> None, list |-> [is_list |-> FALSE, ids |-> {}], fusion |-> FALSE]
       ELSE IF Cardinality(gene_set) > 1 /\ \A g \in gene_set : Cardinality(Shared(g)) <= 1
       THEN [gene |-> None, list |-> [is_list |-> FALSE, ids |-> {}], fusion |-> TRUE]
       ELSE IF Cardinality(gene_set) > 1
       THEN [gene |-> None, list |-> [is_list |-> TRUE, ids |-> gene_set], fusion |-> FALSE]
       ELSE [gene |-> CHOOSE g \in gene_set : TRUE,
             list |-> [is_list |-> FALSE, ids |-> {}], fusion |-> FALSE]

\* ---- find_gene_match_on_vertex_basis:
\* [gene |-> gene ID or None, list |-> the candidate genes (is_list) , fusion]
find_gene_match_on_vertex_basis(vertex_IDs, strand, vertex_2_gene) ==
    LET Matches(i) == {m \in vertex_2_gene : m[1] = vertex_IDs[i] /\ m[3] = strand}
        InDict(i) == \E m \in vertex_2_gene : m[1] = vertex_IDs[i]
        gene_set == UNION {{m[2] : m \in Matches(i)} : i \in 1..Len(vertex_IDs)}
        \* n_gene_matches: per vertex of the dict, how many same-strand genes
        max_n_gene_matches ==
            LET ns == {Cardinality(Matches(i)) : i \in {j \in 1..Len(vertex_IDs) : InDict(j)}}
            IN CHOOSE n \in ns : \A k \in ns : n >= k
    IN IF gene_set = {}
       THEN [gene |-> None, list |-> NoGeneList, fusion |-> FALSE]
       ELSE IF max_n_gene_matches <= 1 /\ Cardinality(gene_set) > 1
       THEN [gene |-> None, list |-> NoGeneList, fusion |-> TRUE]
       ELSE IF Cardinality(gene_set) > 1
       THEN [gene |-> None, list |-> GeneList(gene_set), fusion |-> FALSE]
       ELSE [gene |-> CHOOSE g \in gene_set : TRUE, list |-> NoGeneList, fusion |-> FALSE]

\* ---- assign_gene: <<gene_ID or None, fusion>>
assign_gene(s, vertex_IDs, strand, chrom, start, end) ==
    Let(find_gene_match_on_vertex_basis(vertex_IDs, strand, s.vertex_2_gene), LAMBDA found :
        IF found.list.is_list /\ found.fusion = FALSE
        THEN <<search_for_overlap_with_gene(s, chrom, start, end, strand, found.list)[1],
               found.fusion>>
        ELSE <<found.gene, found.fusion>>)

\* ---- process_5p: s.ret = [vertex, exon, novelty, known, diff]
process_5p(s, chrom, positions, strand, vertex_IDs, gene_ID, gene_starts) ==
    Let(permissive_match_with_gene_priority(chrom, positions[1], strand,
            positions[2], "start", gene_ID, gene_starts, s.location_dict, s.run_info),
        LAMBDA found :
    Let(IF found[1] = None
        THEN create_vertex(s, chrom, positions[1])
        ELSE [s EXCEPT !.ret = found[1]],
        LAMBDA s1 :
    Let(match_or_create_edge(s1, s1.ret, vertex_IDs[1], "exon", strand),
        LAMBDA s2 :
        [s2 EXCEPT !.ret = [vertex |-> s1.ret, exon |-> s2.ret[1],
                            novelty |-> s2.ret[2], known |-> found[3], diff |-> found[2]]])))

\* ---- process_3p: s.ret = [vertex, exon, novelty, known, diff]
process_3p(s, chrom, positions, strand, vertex_IDs, gene_ID, gene_ends) ==
    Let(permissive_match_with_gene_priority(chrom, Last(positions), strand,
            positions[Len(positions) - 1], "end", gene_ID, gene_ends,
            s.location_dict, s.run_info),
        LAMBDA found :
    Let(IF found[1] = None
        THEN create_vertex(s, chrom, Last(positions))
        ELSE [s EXCEPT !.ret = found[1]],
        LAMBDA s1 :
    Let(match_or_create_edge(s1, Last(vertex_IDs), s1.ret, "exon", strand),
        LAMBDA s2 :
        [s2 EXCEPT !.ret = [vertex |-> s1.ret, exon |-> s2.ret[1],
                            novelty |-> s2.ret[2], known |-> found[3], diff |-> found[2]]])))

\* start_end_info as the process_* functions fill it in
StartEndInfo(p5, p3, edge_IDs, vertex_IDs) ==
    [start_vertex |-> p5.vertex, end_vertex |-> p3.vertex,
     start_exon |-> p5.exon, end_exon |-> p3.exon,
     start_novelty |-> p5.novelty, end_novelty |-> p3.novelty,
     diff_5p |-> p5.diff, diff_3p |-> p3.diff,
     edge_IDs |-> <<p5.exon>> \o edge_IDs \o <<p3.exon>>,
     vertex_IDs |-> <<p5.vertex>> \o vertex_IDs \o <<p3.vertex>>]

\* start_end_info = None / {}
NoInfo == [start_vertex |-> None, end_vertex |-> None, start_exon |-> None,
           end_exon |-> None, start_novelty |-> 0, end_novelty |-> 0,
           diff_5p |-> NoneNum, diff_3p |-> NoneNum, edge_IDs |-> <<>>,
           vertex_IDs |-> <<>>]

\* what a process_* function returns; category names the function that
\* resolved the read
Result(gene_ID, transcript_ID, gene_novelty, transcript_novelty, info, fusion, category) ==
    [gene_ID |-> gene_ID, transcript_ID |-> transcript_ID,
     gene_novelty |-> gene_novelty, transcript_novelty |-> transcript_novelty,
     start_end_info |-> info, fusion |-> fusion, category |-> category]

Unresolved(fusion) == Result(None, None, <<>>, <<>>, NoInfo, fusion, "none")

\* an annotation row (ID, annot_name, source, attribute, value) without the
\* constant annot_name (idprefix) and source ("TALON")
Annot(id, attribute, value) == <<id, attribute, value>>

\* process_FSM registering a new transcript when an end of the read is
\* beyond the cutoff
process_FSM_new_transcript(s, chrom, positions, strand, edge_IDs, vertex_IDs, all_matches) ==
    LET n_exons == Len(positions) \div 2
        FSM_matches == FilterSeq(all_matches, LAMBDA x : x.n_exons = n_exons)
        transcript_match == FSM_matches[1]
        gene_ID == transcript_match.gene_ID
        near_5p == Abs(compute_delta(transcript_match.start_pos, positions[1], strand))
                      <= s.run_info.cutoff_5p
        near_3p == Abs(compute_delta(transcript_match.end_pos, Last(positions), strand))
                      <= s.run_info.cutoff_3p
    IN IF Len(FSM_matches) = 0
       THEN [s EXCEPT !.ret = Unresolved(FALSE)]
       ELSE Let(process_5p(s, chrom, positions, strand, vertex_IDs, gene_ID, s.gene_starts),
                LAMBDA s1 :
            Let(process_3p(s1, chrom, positions, strand, vertex_IDs, gene_ID, s1.gene_ends),
                LAMBDA s2 :
            Let(StartEndInfo(s1.ret, s2.ret, edge_IDs, vertex_IDs), LAMBDA info :
            Let(IF near_5p /\ near_3p
                THEN [s2 EXCEPT !.ret = transcript_match.transcript_ID]
                ELSE create_transcript(s2, strand, chrom, positions[1], Last(positions),
                                       gene_ID, info.edge_IDs, info.vertex_IDs),
                LAMBDA s3 :
                [s3 EXCEPT !.ret = Result(gene_ID, s3.ret, <<>>, <<>>, info,
                                          FALSE, "FSM")]))))

\* ---- process_FSM
process_FSM(s, chrom, positions, strand, edge_IDs, vertex_IDs, all_matches) ==
    LET n_exons == Len(positions) \div 2
        FSM_matches == FilterSeq(all_matches, LAMBDA x : x.n_exons = n_exons)
        transcript_match == FSM_matches[1]
        gene_ID == transcript_match.gene_ID
        curr_5p_diff == compute_delta(transcript_match.start_pos, positions[1], strand)
        curr_3p_diff == compute_delta(transcript_match.end_pos, Last(positions), strand)
        near_5p == Abs(curr_5p_diff) <= s.run_info.cutoff_5p
        near_3p == Abs(curr_3p_diff) <= s.run_info.cutoff_3p
    IN IF Len(FSM_matches) = 0
       THEN [s EXCEPT !.ret = Unresolved(FALSE)]
       ELSE Let(IF near_5p
                THEN [s EXCEPT !.ret = [vertex |-> transcript_match.start_vertex,
                                        exon |-> transcript_match.start_exon,
                                        novelty |-> 0, known |-> 0,
                                        diff |-> Some(curr_5p_diff)]]
                ELSE process_5p(s, chrom, positions, strand, vertex_IDs, gene_ID,
                                s.gene_starts),
                LAMBDA s1 :
            Let(IF near_3p
                THEN [s1 EXCEPT !.ret = [vertex |-> transcript_match.end_vertex,
                                         exon |-> transcript_match.end_exon,
                                         novelty |-> 0, known |-> 0,
                                         diff |-> Some(curr_3p_diff)]]
                ELSE process_3p(s1, chrom, positions, strand, vertex_IDs, gene_ID,
                                s1.gene_ends),
                LAMBDA s2 :
                [s2 EXCEPT !.ret = Result(gene_ID, transcript_match.transcript_ID, <<>>, <<>>,
                                          StartEndInfo(s1.ret, s2.ret, edge_IDs, vertex_IDs),
                                          FALSE, "FSM")]))

\* ---- process_ISM
RECURSIVE process_ISM_loop(_, _, _, _, _)
\* the loop "for match in all_matches"; acc = [ISM, prefix, suffix, found]:
\* found is the monoexonic match the single-exon case returns, if any
process_ISM_loop(all_matches, i, n_exons, edge_IDs, acc) ==
    IF i > Len(all_matches) \/ acc.found # <<>> THEN acc
    ELSE LET match == all_matches[i]
             tid == Str(match.transcript_ID)
             ISM == Append(acc.ISM, tid)
             query == IF n_exons = 1
                      THEN Str(edge_IDs[1])
                      ELSE JoinComma(MapStr(SubSeq(edge_IDs, 2, Len(edge_IDs) - 1)))
             is_prefix == StartsWith(match.jn_path[1], query)
             is_suffix == EndsWith(match.jn_path[1], query)
         IN IF n_exons = 1 /\ match.n_exons = 1
            THEN [acc EXCEPT !.ISM = ISM, !.found = <<match>>]
            ELSE process_ISM_loop(all_matches, i + 1, n_exons, edge_IDs,
                    [acc EXCEPT !.ISM = ISM,
                                !.prefix = IF is_prefix THEN Append(@, tid) ELSE @,
                                !.suffix = IF is_suffix THEN Append(@, tid) ELSE @])

\* the novelty rows of a new ISM transcript
ISM_novelty(transcript_ID, acc) ==
    <<Annot(transcript_ID, "ISM_transcript", <<"TRUE">>),
      Annot(transcript_ID, "ISM_to_IDs", JoinComma(acc.ISM))>>
    \o (IF acc.prefix # <<>>
        THEN <<Annot(transcript_ID, "ISM-prefix_transcript", <<"TRUE">>),
               Annot(transcript_ID, "ISM-prefix_to_IDs", JoinComma(acc.prefix))>>
        ELSE <<>>)
    \o (IF acc.suffix # <<>>
        THEN <<Annot(transcript_ID, "ISM-suffix_transcript", <<"TRUE">>),
               Annot(transcript_ID, "ISM-suffix_to_IDs", JoinComma(acc.suffix))>>
        ELSE <<>>)

\* process_ISM once the gene is chosen and the ends are processed: s_ends is
\* the state and info the start_end_info at that point
process_ISM_match(s_ends, info, chrom, positions, strand, edge_IDs, vertex_IDs, gene_ID, all_matches) ==
    LET n_exons == Len(positions) \div 2
        edge_IDs_full == IF n_exons > 1 THEN info.edge_IDs ELSE edge_IDs
        vertex_IDs_full == IF n_exons > 1 THEN info.vertex_IDs ELSE vertex_IDs
    IN Let(process_ISM_loop(all_matches, 1, n_exons, edge_IDs_full,
                            [ISM |-> <<>>, prefix |-> <<>>, suffix |-> <<>>,
                             found |-> <<>>]),
           LAMBDA acc :
           IF acc.found # <<>>
           THEN [s_ends EXCEPT !.ret = Result(acc.found[1].gene_ID,
                                              acc.found[1].transcript_ID,
                                              <<>>, <<>>, info, FALSE, "ISM_known")]
           ELSE Let(create_transcript(s_ends, strand, chrom, positions[1], Last(positions),
                                      gene_ID, edge_IDs_full, vertex_IDs_full),
                    LAMBDA s3 :
                    [s3 EXCEPT !.ret = Result(gene_ID, s3.ret, <<>>,
                                              ISM_novelty(s3.ret, acc), info,
                                              FALSE, "ISM")]))

process_ISM(s, chrom, positions, strand, edge_IDs, vertex_IDs, all_matches_in) ==
    LET n_exons == Len(positions) \div 2
        gene_matches == {all_matches_in[i].gene_ID : i \in 1..Len(all_matches_in)}
        tie_break == Cardinality(gene_matches) > 1
    IN Let(IF tie_break
           THEN search_for_overlap_with_gene(s, chrom, positions[1], Last(positions),
                                             strand, GeneList(gene_matches))[1]
           ELSE all_matches_in[1].gene_ID,
           LAMBDA gene_ID :
       Let(IF tie_break
           THEN FilterSeq(all_matches_in, LAMBDA m : m.gene_ID = gene_ID)
           ELSE all_matches_in,
           LAMBDA all_matches :
       IF gene_ID = None
       THEN [s EXCEPT !.ret = Unresolved(FALSE)]
       ELSE IF n_exons > 1
       THEN Let(process_5p(s, chrom, positions, strand, vertex_IDs, gene_ID, s.gene_starts),
                LAMBDA s1 :
            Let(process_3p(s1, chrom, positions, strand, vertex_IDs, gene_ID, s1.gene_ends),
                LAMBDA s2 :
                process_ISM_match(s2, StartEndInfo(s1.ret, s2.ret, edge_IDs, vertex_IDs),
                                  chrom, positions, strand, edge_IDs, vertex_IDs,
                                  gene_ID, all_matches)))
       ELSE process_ISM_match(s, NoInfo, chrom, positions, strand, edge_IDs, vertex_IDs,
                              gene_ID, all_matches)))

\* ---- process_NIC and process_NNC (label = "NIC_transcript" / "NNC_transcript")
process_NIC_or_NNC(s, chrom, positions, strand, edge_IDs, vertex_IDs, label, category) ==
    Let(assign_gene(s, vertex_IDs, strand, chrom, positions[1], Last(positions)),
        LAMBDA assigned :
    LET gene_ID == assigned[1]
        fusion == assigned[2]
    IN IF gene_ID = None
       THEN [s EXCEPT !.ret = Unresolved(fusion)]
       ELSE Let(process_5p(s, chrom, positions, strand, vertex_IDs, gene_ID, s.gene_starts),
                LAMBDA s1 :
            Let(process_3p(s1, chrom, positions, strand, vertex_IDs, gene_ID, s1.gene_ends),
                LAMBDA s2 :
            Let(StartEndInfo(s1.ret, s2.ret, edge_IDs, vertex_IDs), LAMBDA info :
            Let(create_transcript(s2, strand, chrom, positions[1], Last(positions),
                                  gene_ID, info.edge_IDs, info.vertex_IDs),
                LAMBDA s3 :
                [s3 EXCEPT !.ret = Result(gene_ID, s3.ret, <<>>,
                                          <<Annot(s3.ret, label, <<"TRUE">>)>>,
                                          info, FALSE, category)])))))

process_NIC(s, chrom, positions, strand, edge_IDs, vertex_IDs) ==
    process_NIC_or_NNC(s, chrom, positions, strand, edge_IDs, vertex_IDs,
                       "NIC_transcript", "NIC")

\* process_NNC giving its transcripts the label of process_NIC
process_NNC_labeled_NIC(s, chrom, positions, strand, edge_IDs, vertex_IDs) ==
    process_NIC_or_NNC(s, chrom, positions, strand, edge_IDs, vertex_IDs,
                       "NIC_transcript", "NIC")

process_NNC(s, chrom, positions, strand, edge_IDs, vertex_IDs) ==
    process_NIC_or_NNC(s, chrom, positions, strand, edge_IDs, vertex_IDs,
                       "NNC_transcript", "NNC")

\* process_spliced_antisense naming the new gene itself as the gene it is
\* antisense to
process_spliced_antisense_to_itself(s, chrom, positions, strand, edge_IDs, vertex_IDs) ==
    LET anti_strand == IF strand = "+" THEN "-" ELSE "+"
    IN Let(find_gene_match_on_vertex_basis(vertex_IDs, anti_strand, s.vertex_2_gene),
           LAMBDA found :
       Let(IF found.list.is_list /\ found.fusion = FALSE
           THEN search_for_overlap_with_gene(s, chrom, positions[1],
                    Last(positions), strand, found.list)[1]
           ELSE found.gene,
           LAMBDA anti_gene_ID :
       IF anti_gene_ID = None
       THEN [s EXCEPT !.ret = Unresolved(FALSE)]
       ELSE Let(process_5p(s, chrom, positions, strand, vertex_IDs, anti_gene_ID,
                           s.gene_ends),
                LAMBDA s1 :
            Let(process_3p(s1, chrom, positions, strand, vertex_IDs, anti_gene_ID,
                           s1.gene_starts),
                LAMBDA s2 :
            Let(StartEndInfo(s1.ret, s2.ret, edge_IDs, vertex_IDs), LAMBDA info :
            Let(create_gene(s2, chrom, positions[1], Last(positions), strand),
                LAMBDA s3 :
            Let(create_transcript(s3, strand, chrom, positions[1], Last(positions),
                                  s3.ret, info.edge_IDs, info.vertex_IDs),
                LAMBDA s4 :
                [s4 EXCEPT !.ret = Result(s3.ret, s4.ret,
                    <<Annot(s3.ret, "antisense_gene", <<"TRUE">>),
                      Annot(s3.ret, "gene_antisense_to_IDs", Str(s3.ret))>>,
                    <<Annot(s4.ret, "antisense_transcript", <<"TRUE">>)>>,
                    info, FALSE, "spliced_antisense")]))))))) 

\* ---- process_spliced_antisense
process_spliced_antisense(s, chrom, positions, strand, edge_IDs, vertex_IDs) ==
    LET anti_strand == IF strand = "+" THEN "-" ELSE "+"
    IN Let(find_gene_match_on_vertex_basis(vertex_IDs, anti_strand, s.vertex_2_gene),
           LAMBDA found :
       Let(IF found.list.is_list /\ found.fusion = FALSE
           THEN search_for_overlap_with_gene(s, chrom, positions[1],
                    Last(positions), strand, found.list)[1]
           ELSE found.gene,
           LAMBDA anti_gene_ID :
       IF anti_gene_ID = None
       THEN [s EXCEPT !.ret = Unresolved(FALSE)]
       ELSE Let(process_5p(s, chrom, positions, strand, vertex_IDs, anti_gene_ID,
                           s.gene_ends),
                LAMBDA s1 :
            Let(process_3p(s1, chrom, positions, strand, vertex_IDs, anti_gene_ID,
                           s1.gene_starts),
                LAMBDA s2 :
            Let(StartEndInfo(s1.ret, s2.ret, edge_IDs, vertex_IDs), LAMBDA info :
            Let(create_gene(s2, chrom, positions[1], Last(positions), strand),
                LAMBDA s3 :
            Let(create_transcript(s3, strand, chrom, positions[1], Last(positions),
                                  s3.ret, info.edge_IDs, info.vertex_IDs),
                LAMBDA s4 :
                [s4 EXCEPT !.ret = Result(s3.ret, s4.ret,
                    <<Annot(s3.ret, "antisense_gene", <<"TRUE">>),
                      Annot(s3.ret, "gene_antisense_to_IDs", Str(anti_gene_ID))>>,
                    <<Annot(s4.ret, "antisense_transcript", <<"TRUE">>)>>,
                    info, FALSE, "spliced_antisense")]))))))) 

\* the rows of process_remaining_mult_cases without the antisense case: a gene
\* found on the other strand is treated as one found on the read's strand
remaining_result_any_strand(gene_ID, transcript_ID, found_gene, match_strand, strand, info, fusion) ==
    IF found_gene = None
    THEN Result(gene_ID, transcript_ID,
                <<Annot(gene_ID, IF fusion THEN "fusion_novel" ELSE "intergenic_novel",
                        <<"TRUE">>)>>,
                <<Annot(transcript_ID,
                        IF fusion THEN "fusion_transcript" ELSE "intergenic_transcript",
                        <<"TRUE">>)>>,
                info, fusion, IF fusion THEN "fusion" ELSE "intergenic")
    ELSE Result(gene_ID, transcript_ID, <<>>,
                <<Annot(transcript_ID, "genomic_transcript", <<"TRUE">>)>>,
                info, fusion, "genomic")

\* ---- process_remaining_mult_cases
\* the gene and transcript novelty rows of process_remaining_mult_cases
remaining_result(gene_ID, transcript_ID, found_gene, match_strand, strand, info, fusion) ==
    IF found_gene = None
    THEN Result(gene_ID, transcript_ID,
                <<Annot(gene_ID, IF fusion THEN "fusion_novel" ELSE "intergenic_novel",
                        <<"TRUE">>)>>,
                <<Annot(transcript_ID,
                        IF fusion THEN "fusion_transcript" ELSE "intergenic_transcript",
                        <<"TRUE">>)>>,
                info, fusion, IF fusion THEN "fusion" ELSE "intergenic")
    ELSE IF match_strand # strand
    THEN Result(gene_ID, transcript_ID,
                <<Annot(gene_ID, "antisense_gene", <<"TRUE">>),
                  Annot(gene_ID, "gene_antisense_to_IDs", Str(found_gene))>>,
                <<Annot(transcript_ID, "antisense_transcript", <<"TRUE">>)>>,
                info, fusion, "antisense")
    ELSE Result(gene_ID, transcript_ID, <<>>,
                <<Annot(transcript_ID, "genomic_transcript", <<"TRUE">>)>>,
                info, fusion, "genomic")

process_remaining_mult_cases(s, chrom, positions, strand, edge_IDs, vertex_IDs, fusion) ==
    Let(IF ~s.run_info.create_novel_spliced_genes \/ ~fusion
        THEN search_for_overlap_with_gene(s, chrom, positions[1],
                 Last(positions), strand, NoGeneList)
        ELSE <<None, None>>,
        LAMBDA overlap :
    Let(process_5p(s, chrom, positions, strand, vertex_IDs, overlap[1], s.gene_starts),
        LAMBDA s1 :
    Let(process_3p(s1, chrom, positions, strand, vertex_IDs, overlap[1], s1.gene_ends),
        LAMBDA s2 :
    Let(StartEndInfo(s1.ret, s2.ret, edge_IDs, vertex_IDs), LAMBDA info :
    Let(IF overlap[1] = None \/ overlap[2] # strand
        THEN create_gene(s2, chrom, positions[1], Last(positions), strand)
        ELSE [s2 EXCEPT !.ret = overlap[1]],
        LAMBDA s3 :
    Let(create_transcript(s3, strand, chrom, positions[1], Last(positions),
                          s3.ret, info.edge_IDs, info.vertex_IDs),
        LAMBDA s4 :
        [s4 EXCEPT !.ret = remaining_result(s3.ret, s4.ret, overlap[1], overlap[2],
                                            strand, info, fusion)]))))))

\* update_vertex_2_gene for the splice vertices only, without the first and
\* the last vertex of the path
update_splice_vertices_2_gene(gene_ID, vertex_IDs, strand, vertex_2_gene) ==
    vertex_2_gene \cup {<<vertex_IDs[i], gene_ID, strand>> : i \in 2..(Len(vertex_IDs) - 1)}

\* ---- update_vertex_2_gene
update_vertex_2_gene(gene_ID, vertex_IDs, strand, vertex_2_gene) ==
    vertex_2_gene \cup {<<vertex_IDs[i], gene_ID, strand>> : i \in 1..Len(vertex_IDs)}

\* ---- construct_names: <<gene name, transcript name>>
construct_names(gene_ID, transcript_ID, prefix, n_places) ==
    << prefix \o <<"G">> \o ZFill(Str(gene_ID), n_places),
       prefix \o <<"T">> \o ZFill(Str(transcript_ID), n_places) >>

\* the three name/status rows added for a novel gene or transcript
StatusRows(id, kind, name) ==
    <<Annot(id, kind \o "_status", <<"NOVEL">>),
      Annot(id, kind \o "_name", name),
      Annot(id, kind \o "_id", name)>>

\* the exon_status rows: "for exon, is_novel in zip(exons, e_novelty)"
ExonRows(edge_IDs, e_novelty) ==
    LET idxs == {i \in 1..Len(edge_IDs) : (i - 1) % 2 = 0 /\ i <= Len(e_novelty)
                                         /\ e_novelty[i] # 0}
        order == SelectIdx(idxs, 1, Len(edge_IDs))
    IN [k \in 1..Len(order) |-> Annot(edge_IDs[order[k]], "exon_status", <<"NOVEL">>)]

\* the annotation_info of a read
Annotations(r, gene_novelty, transcript_novelty, exon_novelty, vertex_IDs, edge_IDs, start_vertex, end_vertex, start_exon, end_exon, start_delta, end_delta) ==
    [gene_ID |-> r.gene_ID, transcript_ID |-> r.transcript_ID,
     gene_novelty |-> gene_novelty, transcript_novelty |-> transcript_novelty,
     exon_novelty |-> exon_novelty,
     start_vertex |-> start_vertex, end_vertex |-> end_vertex,
     start_exon |-> start_exon, end_exon |-> end_exon,
     start_delta |-> start_delta, end_delta |-> end_delta,
     vertex_IDs |-> vertex_IDs, edge_IDs |-> edge_IDs,
     category |-> r.category, fusion |-> r.fusion]

\* ---- identify_transcript: s.ret = the read's annotation_info
identify_transcript(s, chrom, positions, strand) ==
    Let(match_splice_vertices(s, chrom, positions, strand), LAMBDA sv :
    Let(match_all_splice_edges(sv, sv.ret[1], strand), LAMBDA se :
    LET vertex_IDs == sv.ret[1]
        v_novelty == sv.ret[2]
        edge_IDs == se.ret[1]
        e_novelty == se.ret[2]
        all_SJs_known == check_all_SJs_known(e_novelty)
        all_exons_known == check_all_exons_known(e_novelty)
        all_exons_novel == check_all_exons_novel(e_novelty)
        splice_vertices_known == SumSeq(v_novelty) = 0
        s0 == [se EXCEPT !.ret = Unresolved(FALSE)]
    IN \* "if all_SJs_known: ... elif splice_vertices_known and gene_ID == None:"
       Let(search_for_ISM(edge_IDs, se.transcript_dict), LAMBDA all_matches :
       Let(IF all_SJs_known /\ Len(all_matches) > 0
           THEN process_FSM(s0, chrom, positions, strand, edge_IDs, vertex_IDs, all_matches)
           ELSE s0,
           LAMBDA sFSM :
       Let(IF all_SJs_known /\ Len(all_matches) > 0 /\ sFSM.ret.gene_ID = None
           THEN process_ISM(sFSM, chrom, positions, strand, edge_IDs, vertex_IDs, all_matches)
           ELSE sFSM,
           LAMBDA sISM :
       Let(IF all_SJs_known
           THEN (IF sISM.ret.gene_ID = None
                 THEN process_NIC(sISM, chrom, positions, strand, edge_IDs, vertex_IDs)
                 ELSE sISM)
           ELSE IF splice_vertices_known
           THEN process_NIC(s0, chrom, positions, strand, edge_IDs, vertex_IDs)
           ELSE s0,
           LAMBDA sA :
       \* "if splice_vertices_known and gene_ID == None and not fusion: ... elif ..."
       Let(IF splice_vertices_known /\ sA.ret.gene_ID = None /\ ~sA.ret.fusion
           THEN process_spliced_antisense(sA, chrom, positions, strand, edge_IDs, vertex_IDs)
           ELSE IF ~splice_vertices_known /\ ~sA.ret.fusion /\ ~all_exons_novel
           THEN process_NNC(sA, chrom, positions, strand, edge_IDs, vertex_IDs)
           ELSE sA,
           LAMBDA sB :
       \* "if gene_ID == None:"
       Let(IF sB.ret.gene_ID = None
           THEN process_remaining_mult_cases(sB, chrom, positions, strand, edge_IDs,
                    vertex_IDs,
                    IF splice_vertices_known /\ sA.ret.gene_ID = None /\ ~sA.ret.fusion
                    THEN sA.ret.fusion ELSE sB.ret.fusion)
           ELSE sB,
           LAMBDA sC :
       LET r == sC.ret
           info == r.start_end_info
           full_e_novelty == <<info.start_novelty>> \o e_novelty \o <<info.end_novelty>>
           names == construct_names(r.gene_ID, r.transcript_ID, s.run_info.idprefix,
                                    s.run_info.n_places)
           gene_novelty == IF Len(r.gene_novelty) > 0
                           THEN r.gene_novelty \o StatusRows(r.gene_ID, "gene", names[1])
                           ELSE r.gene_novelty
           transcript_novelty == IF Len(r.transcript_novelty) > 0
                                 THEN r.transcript_novelty
                                      \o StatusRows(r.transcript_ID, "transcript", names[2])
                                 ELSE r.transcript_novelty
           exon_novelty == ExonRows(info.edge_IDs, full_e_novelty)
       IN [sC EXCEPT
             !.vertex_2_gene = update_vertex_2_gene(r.gene_ID, info.vertex_IDs, strand, @),
             !.ret = Annotations(r, gene_novelty, transcript_novelty, exon_novelty,
                                 info.vertex_IDs, info.edge_IDs,
                                 info.start_vertex, info.end_vertex,
                                 info.start_exon, info.end_exon,
                                 info.diff_5p, info.diff_3p)]))))))))

\* ---- identify_monoexon_transcript: s.ret = the read's annotation_info
RECURSIVE best_monoexon_loop(_, _, _, _, _, _)
\* "if overlap >= best_overlap": the last row with the largest overlap
best_monoexon_loop(matches, i, start, end, best_overlap, best_match) ==
    IF i > Len(matches) THEN best_match
    ELSE LET overlap == get_overlap(<<start, end>>, <<matches[i].start, matches[i].end>>)
         IN IF overlap >= best_overlap
            THEN best_monoexon_loop(matches, i + 1, start, end, overlap, matches[i])
            ELSE best_monoexon_loop(matches, i + 1, start, end, best_overlap, best_match)

\* the branch "if gene_ID == None" of identify_monoexon_transcript: the gene
\* is searched by overlap, created if there is none on the strand, and the
\* transcript is created
monoexon_novel(s, chrom, positions, strand, edge_IDs, vertex_IDs) ==
    Let(search_for_overlap_with_gene(s, chrom, positions[1], positions[2],
                                     strand, NoGeneList),
        LAMBDA overlap :
    Let(IF overlap[1] = None \/ overlap[2] # strand
        THEN create_gene(s, chrom, positions[1], Last(positions), strand)
        ELSE [s EXCEPT !.ret = overlap[1]],
        LAMBDA sG :
    Let(create_transcript(sG, strand, chrom, positions[1], Last(positions),
                          sG.ret, edge_IDs, vertex_IDs),
        LAMBDA sT :
        IF overlap[1] = None
        THEN [sT EXCEPT !.ret = Result(sG.ret, sT.ret,
                  <<Annot(sG.ret, "intergenic_novel", <<"TRUE">>)>>,
                  <<Annot(sT.ret, "intergenic_transcript", <<"TRUE">>)>>,
                  NoInfo, FALSE, "intergenic")]
        ELSE IF overlap[2] # strand
        THEN [sT EXCEPT !.ret = Result(sG.ret, sT.ret,
                  <<Annot(sG.ret, "antisense_gene", <<"TRUE">>),
                    Annot(sG.ret, "gene_antisense_to_IDs", Str(overlap[1]))>>,
                  <<Annot(sT.ret, "antisense_transcript", <<"TRUE">>)>>,
                  NoInfo, FALSE, "antisense")]
        ELSE [sT EXCEPT !.ret = Result(sG.ret, sT.ret, <<>>,
                  <<Annot(sT.ret, "genomic_transcript", <<"TRUE">>)>>,
                  NoInfo, FALSE, "genomic")])))

identify_monoexon_transcript(s, chrom, positions, strand) ==
    LET start == positions[1]
        end == Last(positions)
    IN Let(FilterSeq(s.tmp_monoexon,
                     LAMBDA tm : /\ tm.chromosome = chrom
                                 /\ tm.strand = strand
                                 /\ SqlOverlaps(tm, Min2(start, end), Max2(start, end))),
           LAMBDA matches :
       IF Len(matches) > 0
       THEN Let(best_monoexon_loop(matches, 1, start, end, 0, matches[1]),
                LAMBDA best_match :
                [s EXCEPT !.ret = Annotations(
                     Result(best_match.gene_ID, best_match.transcript_ID, <<>>, <<>>,
                            NoInfo, FALSE, "monoexon_overlap"),
                     <<>>, <<>>, <<>>,
                     <<best_match.start_vertex, best_match.end_vertex>>,
                     <<best_match.exon_ID>>,
                     best_match.start_vertex, best_match.end_vertex,
                     best_match.exon_ID, best_match.exon_ID,
                     Some(compute_delta(best_match.start, start, strand)),
                     Some(compute_delta(best_match.end, end, strand)))])
       ELSE \* no overlapping monoexonic transcript
            Let(match_monoexon_vertices(s, chrom, positions, strand), LAMBDA sv :
            Let(match_all_transcript_edges(sv, sv.ret[1], strand), LAMBDA se :
            LET vertex_IDs == sv.ret[1]
                diff_5p == sv.ret[3]
                diff_3p == sv.ret[4]
                edge_IDs == se.ret[1]
                e_novelty == se.ret[2]
                s0 == [se EXCEPT !.ret = Unresolved(FALSE)]
            IN Let(search_for_ISM(edge_IDs, se.transcript_dict), LAMBDA all_matches :
               Let(IF e_novelty[1] = 0 /\ Len(all_matches) > 0
                   THEN process_ISM(s0, chrom, positions, strand, edge_IDs, vertex_IDs,
                                    all_matches)
                   ELSE s0,
                   LAMBDA sISM :
               Let(IF sISM.ret.gene_ID # None THEN sISM
                   ELSE monoexon_novel(sISM, chrom, positions, strand, edge_IDs, vertex_IDs),
                   LAMBDA sR :
               LET r == sR.ret
                   names == construct_names(r.gene_ID, r.transcript_ID, s.run_info.idprefix,
                                            s.run_info.n_places)
                   gene_novelty == IF Len(r.gene_novelty) > 0
                                   THEN r.gene_novelty
                                        \o StatusRows(r.gene_ID, "gene", names[1])
                                   ELSE r.gene_novelty
                   transcript_novelty == r.transcript_novelty
                                         \o StatusRows(r.transcript_ID, "transcript", names[2])
                   exon_novelty == IF e_novelty[1] = 1
                                   THEN <<Annot(edge_IDs[1], "exon_status", <<"NOVEL">>)>>
                                   ELSE <<>>
                   new_mono == [gene_ID |-> r.gene_ID, transcript_ID |-> r.transcript_ID,
                                chromosome |-> chrom, start |-> start, end |-> end,
                                strand |-> strand, start_vertex |-> vertex_IDs[1],
                                end_vertex |-> Last(vertex_IDs), exon_ID |-> edge_IDs[1],
                                min_pos |-> Min2(start, end), max_pos |-> Max2(start, end)]
               IN [sR EXCEPT
                     !.vertex_2_gene = update_vertex_2_gene(r.gene_ID, vertex_IDs, strand, @),
                     !.tmp_monoexon = Append(@, new_mono),
                     !.ret = Annotations(r, gene_novelty, transcript_novelty, exon_novelty,
                                         vertex_IDs, edge_IDs,
                                         vertex_IDs[1], Last(vertex_IDs),
                                         edge_IDs[1], Last(edge_IDs),
                                         diff_5p, diff_3p)]))))))

\* ---- annotate_read: the read is [chrom, strand, positions (5' to 3'), passed_qc]
annotate_read(s, read) ==
    LET n_exons == Len(read.positions) \div 2
    IN IF n_exons > 1
       THEN identify_transcript(s, read.chrom, read.positions, read.strand)
       ELSE identify_monoexon_transcript(s, read.chrom, read.positions, read.strand)

----------------------------------------------------------------------------
(***************************************************************************)
(* SpecShard: one shard (parallel_talon's struct_collection) classifies    *)
(* reads one after the other.                                              *)
(***************************************************************************)
MaxReads == 2

\* run_info as init_run_info fills it from the database's run_info table
RunInfo(create_novel_spliced_genes) ==
    [cutoff_5p |-> 5, cutoff_3p |-> 5, idprefix |-> <<"T">>, n_places |-> 3,
     create_novel_spliced_genes |-> create_novel_spliced_genes]

\* The database's counters after two genes on chr1 were loaded
LoadedCounters == [genes |-> 2, transcripts |-> 2, vertex |-> 6, edge |-> 5,
                   observed |-> 0, dataset |-> 0]

KnownVertex(id, position) ==
    [location_ID |-> id, chromosome |-> "chr1", position |-> position, novel |-> FALSE]

KnownEdge(id, v1, v2, edge_type) ==
    [edge_ID |-> id, v1 |-> v1, v2 |-> v2, edge_type |-> edge_type, strand |-> "+",
     novel |-> FALSE]

\* prepare_data_structures for the interval of chr1 that holds
\*   gene 1, transcript 1: exons 10-15 and 25-26
\*   gene 2, transcript 2: exons 1-4 and 10-15
\* (both on the + strand; the exon 10-15 is edge 1 in both), and for a
\* chromosome without annotation
prepare_data_structures(chrom, cnt, run_info) ==
    LET known == chrom = "chr1"
    IN [loaded |-> TRUE,
        location_dict |-> IF known
            THEN <<KnownVertex(1, 1), KnownVertex(2, 4), KnownVertex(3, 10),
                   KnownVertex(4, 15), KnownVertex(5, 25), KnownVertex(6, 26)>>
            ELSE <<>>,
        edge_dict |-> IF known
            THEN <<KnownEdge(1, 3, 4, "exon"), KnownEdge(2, 4, 5, "intron"),
                   KnownEdge(3, 5, 6, "exon"), KnownEdge(4, 1, 2, "exon"),
                   KnownEdge(5, 2, 3, "intron")>>
            ELSE <<>>,
        transcript_dict |-> IF known
            THEN <<[key |-> {1, 2, 3}, transcript_ID |-> 1, gene_ID |-> 1,
                    jn_path |-> Some(<<"2">>), start_exon |-> 1, end_exon |-> 3,
                    start_vertex |-> 3, end_vertex |-> 6, n_exons |-> 2,
                    chromosome |-> "chr1", start_pos |-> 10, end_pos |-> 26,
                    novel |-> FALSE],
                   [key |-> {4, 5, 1}, transcript_ID |-> 2, gene_ID |-> 2,
                    jn_path |-> Some(<<"5">>), start_exon |-> 4, end_exon |-> 1,
                    start_vertex |-> 1, end_vertex |-> 4, n_exons |-> 2,
                    chromosome |-> "chr1", start_pos |-> 1, end_pos |-> 15,
                    novel |-> FALSE]>>
            ELSE <<>>,
        tmp_t |-> IF known
            THEN <<[gene_ID |-> 1, transcript_ID |-> 1, chromosome |-> "chr1",
                    strand |-> "+", min_pos |-> 10, max_pos |-> 26],
                   [gene_ID |-> 2, transcript_ID |-> 2, chromosome |-> "chr1",
                    strand |-> "+", min_pos |-> 1, max_pos |-> 15]>>
            ELSE <<>>,
        tmp_monoexon |-> <<>>,
        tmp_gene |-> IF known
            THEN <<[gene_ID |-> 1, chromosome |-> "chr1", start |-> 10, end |-> 26,
                    strand |-> "+"],
                   [gene_ID |-> 2, chromosome |-> "chr1", start |-> 1, end |-> 15,
                    strand |-> "+"]>>
            ELSE <<>>,
        vertex_2_gene |-> IF known
            THEN {<<3, 1, "+">>, <<4, 1, "+">>, <<5, 1, "+">>, <<6, 1, "+">>,
                  <<1, 2, "+">>, <<2, 2, "+">>, <<3, 2, "+">>, <<4, 2, "+">>}
            ELSE {},
        gene_starts |-> IF known
            THEN <<[gene |-> 1, position |-> 10, vertex |-> 3],
                   [gene |-> 2, position |-> 1, vertex |-> 1]>>
            ELSE <<>>,
        gene_ends |-> IF known
            THEN <<[gene |-> 1, position |-> 26, vertex |-> 6],
                   [gene |-> 2, position |-> 15, vertex |-> 4]>>
            ELSE <<>>,
        cnt |-> cnt,
        run_info |-> run_info,
        group_pick |-> "none",
        ret |-> None]

\* a read after check_read_quality and annotate_read's parsing: positions
\* are the exon boundaries from 5' to 3'
Read(chrom, strand, positions, passed_qc) ==
    [chrom |-> chrom, strand |-> strand, positions |-> positions, passed_qc |-> passed_qc]

Chr1Reads ==
    { Read("chr1", "+", <<10, 11>>, TRUE),
      Read("chr1", "+", <<12, 19>>, TRUE),
      Read("chr1", "+", <<12, 14>>, TRUE),
      Read("chr1", "-", <<19, 12>>, TRUE),
      Read("chr1", "+", <<50, 60>>, TRUE),
      Read("chr1", "+", <<10, 15, 25, 26>>, TRUE),
      Read("chr1", "+", <<9, 15, 25, 27>>, TRUE),
      Read("chr1", "+", <<1, 4, 25, 26>>, TRUE),
      Read("chr1", "+", <<10, 15, 20, 26>>, TRUE),
      Read("chr1", "-", <<26, 25, 15, 10>>, TRUE),
      Read("chr1", "+", <<50, 60, 70, 80>>, TRUE) }

\* the row of a GROUP BY group that supplies the bare columns of a query
GroupPicks == {"first", "last"}

ShardInit ==
    /\ \E b \in BOOLEAN :
          shard = prepare_data_structures("chr1", LoadedCounters, RunInfo(b))
    /\ hist = <<>>
    /\ CounterOff
    /\ PipelineOff

\* one iteration of parallel_talon's loop for a read that passed QC
ClassifyRead(read, group_pick) ==
    /\ Len(hist) < MaxReads
    /\ \E s \in {annotate_read([shard EXCEPT !.group_pick = group_pick], read)} :
          /\ shard' = [s EXCEPT !.ret = None, !.group_pick = "none"]
          /\ hist' = Append(hist, [read |-> read, ann |-> s.ret])
    /\ UNCHANGED nonsvars

ShardNext == \E read \in Chr1Reads, g \in GroupPicks : ClassifyRead(read, g)

SpecShard == ShardInit /\ [][ShardNext]_vars

\* C3: two reads classified in the same shard whose resolved edge-ID sets
\* (start exon, interior edges, end exon) are equal get the same transcript ID
C3_TranscriptIdentity ==
    \A i, j \in 1..Len(hist) :
        SeqToSet(hist[i].ann.edge_IDs) = SeqToSet(hist[j].ann.edge_IDs)
            => hist[i].ann.transcript_ID = hist[j].ann.transcript_ID

\* the vertices of the path the read was resolved to, with its start and end
PathVertices(ann) ==
    {ann.vertex_IDs[i] : i \in 1..Len(ann.vertex_IDs)}
        \cup {ann.start_vertex, ann.end_vertex}

\* C32: after a read of one or several exons is classified and assigned a
\* gene, every vertex of its path, the start and the end vertex included, is
\* in vertex_2_gene under the assigned gene and the read's strand
C32_PathVerticesIndexed ==
    \A k \in 1..Len(hist) : hist[k].ann.gene_ID # None =>
        \A v \in PathVertices(hist[k].ann) :
            <<v, hist[k].ann.gene_ID, hist[k].read.strand>> \in shard.vertex_2_gene

\* a read of one exon and a read of two exons, both with a start vertex that
\* the graph did not have, both assigned a gene
C32_Witness ==
    /\ Len(hist) = 2
    /\ Len(hist[1].read.positions) = 2
    /\ Len(hist[2].read.positions) = 4
    /\ \A k \in 1..2 :
          /\ hist[k].ann.gene_ID # None
          /\ hist[k].ann.start_vertex > LoadedCounters.vertex
          /\ <<hist[k].ann.start_vertex, hist[k].ann.gene_ID, hist[k].read.strand>>
                \in shard.vertex_2_gene

\* C37: when the read just classified is classified again right away, it
\* gets the same gene ID and transcript ID, and no vertex, edge, transcript or
\* gene ID is allocated for it
C37_ReclassifyIdempotent ==
    [][(/\ Len(hist) >= 1
        /\ Len(hist') = Len(hist) + 1
        /\ hist'[Len(hist')].read = hist[Len(hist)].read) =>
          /\ hist'[Len(hist')].ann.gene_ID = hist[Len(hist)].ann.gene_ID
          /\ hist'[Len(hist')].ann.transcript_ID = hist[Len(hist)].ann.transcript_ID
          /\ shard'.cnt.vertex = shard.cnt.vertex
          /\ shard'.cnt.edge = shard.cnt.edge
          /\ shard'.cnt.transcripts = shard.cnt.transcripts
          /\ shard'.cnt.genes = shard.cnt.genes]_vars

\* the read with a new junction at 20 got the new transcript 3 of gene 1, and
\* classified again it got transcript 3 and nothing was allocated
C37_Witness ==
    /\ Len(hist) = 2
    /\ hist[1].read.positions = <<10, 15, 20, 26>>
    /\ hist[2].read = hist[1].read
    /\ hist[1].ann.transcript_ID = LoadedCounters.transcripts + 1
    /\ hist[1].ann.transcript_novelty # <<>>
    /\ hist[2].ann.transcript_ID = hist[1].ann.transcript_ID
    /\ hist[2].ann.transcript_novelty = <<>>
    /\ shard.cnt.transcripts = LoadedCounters.transcripts + 1

\* the outcome of classifying a read in the current shard: the annotations
\* and the resulting graph state, when SQLite picks the given row of a group
Classified(read, group_pick) ==
    [annotate_read([shard EXCEPT !.group_pick = group_pick], read)
        EXCEPT !.group_pick = "none"]

----------------------------------------------------------------------------
(***************************************************************************)
(* SpecIsoforms: one shard classifies reads against an annotation whose    *)
(* transcripts share splice junctions:                                     *)
(*   gene 1, transcript 1: exons 10-15, 25-30, 40-45                       *)
(*   gene 1, transcript 2: exons 10-15, 25-30, 40-60                       *)
(*   gene 2, transcript 3: exons 27-30, 40-45, 50-55                       *)
(* (all on the + strand of chr1; the intron 30-40 is edge 4 in all three). *)
(***************************************************************************)
IsoformCounters == [genes |-> 2, transcripts |-> 3, vertex |-> 10, edge |-> 9,
                    observed |-> 0, dataset |-> 0]

KnownTranscript(id, gene, edges, vertices, start_pos, end_pos) ==
    [key |-> SeqToSet(edges), transcript_ID |-> id, gene_ID |-> gene,
     jn_path |-> Some(JoinComma(MapStr(SubSeq(edges, 2, Len(edges) - 1)))),
     start_exon |-> edges[1], end_exon |-> Last(edges),
     start_vertex |-> vertices[1], end_vertex |-> Last(vertices),
     n_exons |-> (Len(edges) + 1) \div 2, chromosome |-> "chr1",
     start_pos |-> start_pos, end_pos |-> end_pos, novel |-> FALSE]

KnownSpan(gene, id, min_pos, max_pos) ==
    [gene_ID |-> gene, transcript_ID |-> id, chromosome |-> "chr1",
     strand |-> "+", min_pos |-> min_pos, max_pos |-> max_pos]

\* prepare_data_structures for the interval of chr1 that holds the three
\* transcripts above
prepare_data_structures_isoforms(cnt, run_info) ==
    [loaded |-> TRUE,
     location_dict |->
        <<KnownVertex(1, 10), KnownVertex(2, 15), KnownVertex(3, 25),
          KnownVertex(4, 30), KnownVertex(5, 40), KnownVertex(6, 45),
          KnownVertex(7, 60), KnownVertex(8, 27), KnownVertex(9, 50),
          KnownVertex(10, 55)>>,
     edge_dict |->
        <<KnownEdge(1, 1, 2, "exon"), KnownEdge(2, 2, 3, "intron"),
          KnownEdge(3, 3, 4, "exon"), KnownEdge(4, 4, 5, "intron"),
          KnownEdge(5, 5, 6, "exon"), KnownEdge(6, 5, 7, "exon"),
          KnownEdge(7, 8, 4, "exon"), KnownEdge(8, 6, 9, "intron"),
          KnownEdge(9, 9, 10, "exon")>>,
     transcript_dict |->
        <<KnownTranscript(1, 1, <<1, 2, 3, 4, 5>>, <<1, 2, 3, 4, 5, 6>>, 10, 45),
          KnownTranscript(2, 1, <<1, 2, 3, 4, 6>>, <<1, 2, 3, 4, 5, 7>>, 10, 60),
          KnownTranscript(3, 2, <<7, 4, 5, 8, 9>>, <<8, 4, 5, 6, 9, 10>>, 27, 55)>>,
     tmp_t |-> <<KnownSpan(1, 1, 10, 45), KnownSpan(1, 2, 10, 60),
                 KnownSpan(2, 3, 27, 55)>>,
     tmp_monoexon |-> <<>>,
     tmp_gene |->
        <<[gene_ID |-> 1, chromosome |-> "chr1", start |-> 10, end |-> 60,
           strand |-> "+"],
          [gene_ID |-> 2, chromosome |-> "chr1", start |-> 27, end |-> 55,
           strand |-> "+"]>>,
     vertex_2_gene |->
        {<<v, 1, "+">> : v \in 1..7} \cup {<<v, 2, "+">> : v \in {8, 4, 5, 6, 9, 10}},
     gene_starts |-> <<[gene |-> 1, position |-> 10, vertex |-> 1],
                       [gene |-> 2, position |-> 27, vertex |-> 8]>>,
     gene_ends |-> <<[gene |-> 1, position |-> 45, vertex |-> 6],
                     [gene |-> 1, position |-> 60, vertex |-> 7],
                     [gene |-> 2, position |-> 55, vertex |-> 10]>>,
     cnt |-> cnt,
     run_info |-> run_info,
     group_pick |-> "none",
     ret |-> None]

IsoformReads ==
    { Read("chr1", "+", <<10, 15, 25, 30, 40, 45>>, TRUE),
      Read("chr1", "+", <<12, 15, 25, 30, 40, 43>>, TRUE),
      Read("chr1", "+", <<10, 15, 25, 30, 40, 60>>, TRUE),
      Read("chr1", "+", <<10, 15, 25, 30>>, TRUE),
      Read("chr1", "+", <<25, 30, 40, 45>>, TRUE),
      Read("chr1", "+", <<40, 45, 50, 55>>, TRUE),
      Read("chr1", "+", <<4, 15, 25, 30>>, TRUE),
      Read("chr1", "+", <<5, 15, 25, 30>>, TRUE),
      Read("chr1", "+", <<10, 15, 25, 36>>, TRUE),
      Read("chr1", "-", <<51, 40, 30, 19>>, TRUE),
      Read("chr1", "-", <<30, 25, 15, 10>>, TRUE),
      Read("chr1", "+", <<10, 15, 40, 45>>, TRUE),
      Read("chr1", "+", <<10, 15, 25, 30, 41, 45>>, TRUE),
      Read("chr1", "+", <<10, 15, 20, 22, 40, 45>>, TRUE),
      Read("chr1", "+", <<10, 15, 25, 30, 40, 45, 50, 55>>, TRUE) }

IsoformsInit ==
    /\ \E b \in BOOLEAN :
          shard = prepare_data_structures_isoforms(IsoformCounters, RunInfo(b))
    /\ hist = <<>>
    /\ CounterOff
    /\ PipelineOff

IsoformsNext == \E read \in IsoformReads, g \in GroupPicks : ClassifyRead(read, g)

SpecIsoforms == IsoformsInit /\ [][IsoformsNext]_vars

\* the edge IDs of a read's interior path (exon boundaries 2 .. n-1) in the
\* current graph (None where a vertex or an edge of it is not there)
InteriorEdge(read, i) ==
    search_for_edge(search_for_vertex_at_pos(read.chrom, read.positions[i], shard.location_dict),
                    search_for_vertex_at_pos(read.chrom, read.positions[i + 1], shard.location_dict),
                    IF i % 2 = 0 THEN "intron" ELSE "exon", shard.edge_dict)

InteriorKnown(read) ==
    \A i \in 2..(Len(read.positions) - 2) : InteriorEdge(read, i) # None

InteriorPath(read) ==
    [k \in 1..(Len(read.positions) - 3) |-> InteriorEdge(read, k + 1)]

\* the read has the interior path and the exon count of transcript t, and
\* its ends are within the cutoffs of t's ends
FullSpliceMatch(read, t) ==
    /\ Len(read.positions) >= 4
    /\ t.chromosome = read.chrom
    /\ t.n_exons = Len(read.positions) \div 2
    /\ InteriorKnown(read)
    /\ t.jn_path = Some(JoinComma(MapStr(InteriorPath(read))))
    /\ Abs(compute_delta(t.start_pos, read.positions[1], read.strand))
          <= shard.run_info.cutoff_5p
    /\ Abs(compute_delta(t.end_pos, Last(read.positions), read.strand))
          <= shard.run_info.cutoff_3p

\* C13: a multi-exon read whose interior edge path and exon count are those
\* of an existing transcript, with both ends within the cutoffs of that
\* transcript's ends, gets that transcript's gene ID and transcript ID and
\* no gene or transcript novelty rows
C13_FullSpliceMatch ==
    \A read \in IsoformReads : \A i \in 1..Len(shard.transcript_dict) :
        FullSpliceMatch(read, shard.transcript_dict[i]) =>
            \A p \in GroupPicks :
                Let(Classified(read, p).ret, LAMBDA ann :
                    /\ ann.gene_ID = shard.transcript_dict[i].gene_ID
                    /\ ann.transcript_ID = shard.transcript_dict[i].transcript_ID
                    /\ ann.gene_novelty = <<>>
                    /\ ann.transcript_novelty = <<>>)

RECURSIVE SplitComma(_)
\* the items of a comma-joined string
SplitComma(str) ==
    LET commas == {i \in 1..Len(str) : str[i] = ","}
    IN IF commas = {} THEN <<str>>
       ELSE LET c == CHOOSE i \in commas : \A j \in commas : i <= j
            IN <<SubSeq(str, 1, c - 1)>> \o SplitComma(SubSeq(str, c + 1, Len(str)))

PathPrefix(path, of) == Len(path) <= Len(of) /\ SubSeq(of, 1, Len(path)) = path

PathSuffix(path, of) ==
    Len(path) <= Len(of) /\ SubSeq(of, Len(of) - Len(path) + 1, Len(of)) = path

\* the value of a transcript novelty row, <<>> when there is no such row
ValueOf(ann, attribute) ==
    LET rows == {k \in 1..Len(ann.transcript_novelty) :
                    ann.transcript_novelty[k][2] = attribute}
    IN IF rows = {} THEN <<>>
       ELSE ann.transcript_novelty[CHOOSE k \in rows : TRUE][3]

\* the transcripts of the gene whose edge set holds the read's interior edges
SupersetMatches(read, gene_ID) ==
    FilterSeq(shard.transcript_dict,
              LAMBDA t : /\ t.gene_ID = gene_ID
                         /\ SeqToSet(InteriorPath(read)) \subseteq t.key)

\* the annotations carry the ISM-prefix or ISM-suffix label with t's ID
IsLabeled(ann, t, kind) ==
    /\ ValueOf(ann, "ISM-" \o kind \o "_transcript") = <<"TRUE">>
    /\ Str(t.transcript_ID)
           \in SeqToSet(SplitComma(ValueOf(ann, "ISM-" \o kind \o "_to_IDs")))

\* C14: a multi-exon read classified ISM, with t a transcript of the
\* assigned gene whose edge set holds the read's interior edges: when the
\* read's interior edge path is a prefix of t's jn_path the new transcript
\* has ISM-prefix_transcript = TRUE and t's ID in ISM-prefix_to_IDs, when it
\* is a suffix the same with ISM-suffix; ISM_to_IDs lists all such t
C14_PrefixSuffixLabels ==
    \A read \in {r \in IsoformReads : Len(r.positions) >= 4} : \A p \in GroupPicks :
        Let(Classified(read, p).ret, LAMBDA ann :
            ann.category = "ISM" =>
                Let(SupersetMatches(read, ann.gene_ID), LAMBDA matches :
                Let(MapStr(InteriorPath(read)), LAMBDA query :
                    /\ ValueOf(ann, "ISM_transcript") = <<"TRUE">>
                    /\ SplitComma(ValueOf(ann, "ISM_to_IDs"))
                          = [k \in 1..Len(matches) |-> Str(matches[k].transcript_ID)]
                    /\ \A k \in 1..Len(matches) :
                          /\ PathPrefix(query, SplitComma(matches[k].jn_path[1]))
                                => IsLabeled(ann, matches[k], "prefix")
                          /\ PathSuffix(query, SplitComma(matches[k].jn_path[1]))
                                => IsLabeled(ann, matches[k], "suffix"))))

\* an ISM read labeled as a prefix of two transcripts was classified, and
\* an ISM read labeled as a suffix
C14_Witness ==
    /\ \E i \in 1..Len(hist) :
          /\ hist[i].ann.category = "ISM"
          /\ ValueOf(hist[i].ann, "ISM-prefix_to_IDs") = <<"1", ",", "2">>
    /\ \E i \in 1..Len(hist) :
          /\ hist[i].ann.category = "ISM"
          /\ ValueOf(hist[i].ann, "ISM-suffix_to_IDs") = <<"3">>

\* the two ends of a read as process_5p and process_3p search for them
EndQueries(read) ==
    { [position |-> read.positions[1], sj_pos |-> read.positions[2],
       pos_type |-> "start"],
      [position |-> Last(read.positions),
       sj_pos |-> read.positions[Len(read.positions) - 1], pos_type |-> "end"] }

Cutoff(pos_type) ==
    IF pos_type = "start" THEN shard.run_info.cutoff_5p ELSE shard.run_info.cutoff_3p

\* the match <<vertex, distance>> is a vertex of the chromosome within the
\* cutoff of the position, and the distance is the signed one to it
WithinCutoff(match, read, q) ==
    \E k \in 1..Len(shard.location_dict) :
        /\ shard.location_dict[k].location_ID = match[1]
        /\ shard.location_dict[k].chromosome = read.chrom
        /\ Abs(shard.location_dict[k].position - q.position) <= Cutoff(q.pos_type)
        /\ match[2] = Some(compute_delta(shard.location_dict[k].position, q.position,
                                         read.strand))

NoVertexNear(read, q) ==
    \A k \in 1..Len(shard.location_dict) :
        shard.location_dict[k].chromosome = read.chrom
            => Abs(shard.location_dict[k].position - q.position) > Cutoff(q.pos_type)

\* process_5p / process_3p on the read's end, after match_splice_vertices,
\* for a read assigned to the gene
ProcessEnd(read, q, gene_ID) ==
    Let(match_splice_vertices(shard, read.chrom, read.positions, read.strand),
        LAMBDA sv :
        IF q.pos_type = "start"
        THEN process_5p(sv, read.chrom, read.positions, read.strand, sv.ret[1],
                        gene_ID, sv.gene_starts)
        ELSE process_3p(sv, read.chrom, read.positions, read.strand, sv.ret[1],
                        gene_ID, sv.gene_ends))

\* the vertex that process_5p / process_3p returned is a vertex created at
\* the position
NewVertexAt(s, q) ==
    /\ s.ret.vertex > shard.cnt.vertex
    /\ \E k \in 1..Len(s.location_dict) :
          /\ s.location_dict[k].location_ID = s.ret.vertex
          /\ s.location_dict[k].position = q.position
          /\ s.location_dict[k].novel

\* C15: a vertex returned by permissive_vertex_search or by
\* permissive_match_with_gene_priority is within the cutoff of the read end;
\* for a read end with no known vertex within the cutoff both return no
\* match, and process_5p / process_3p create a vertex at the end position
C15_PermissiveCutoff ==
    \A read \in IsoformReads : \A q \in EndQueries(read) :
        /\ Let(permissive_vertex_search(read.chrom, q.position, read.strand, q.sj_pos,
                   q.pos_type, shard.location_dict, shard.run_info),
               LAMBDA match :
               /\ match[1] # None => WithinCutoff(match, read, q)
               /\ NoVertexNear(read, q) => match[1] = None)
        /\ \A gene_ID \in 0..shard.cnt.genes :
              Let(permissive_match_with_gene_priority(read.chrom, q.position, read.strand,
                      q.sj_pos, q.pos_type, gene_ID,
                      IF q.pos_type = "start" THEN shard.gene_starts ELSE shard.gene_ends,
                      shard.location_dict, shard.run_info),
                  LAMBDA match :
                  /\ match[1] # None => WithinCutoff(match, read, q)
                  /\ NoVertexNear(read, q) => match[1] = None)
        /\ NoVertexNear(read, q) =>
              \A gene_ID \in 0..shard.cnt.genes :
                  Let(ProcessEnd(read, q, gene_ID), LAMBDA s : NewVertexAt(s, q))

\* the read + [4,15,25,30], 6 from the vertex at 10, got the new vertex 11
\* at 4; the read + [10,15,25,36] got the vertex at 40, 4 from its end
C15_Witness ==
    /\ \E i \in 1..Len(hist) :
          /\ hist[i].read.positions[1] = 4
          /\ hist[i].ann.start_vertex = 11
          /\ \E k \in 1..Len(shard.location_dict) :
                /\ shard.location_dict[k].location_ID = 11
                /\ shard.location_dict[k].position = 4
    /\ \E i \in 1..Len(hist) :
          /\ Last(hist[i].read.positions) = 36
          /\ hist[i].ann.end_vertex = 5
          /\ hist[i].ann.end_delta = Some(-4)

\* the vertex at the read's i-th exon boundary (None when there is none)
SpliceVertex(read, i) ==
    search_for_vertex_at_pos(read.chrom, read.positions[i], shard.location_dict)

\* the genes of one strand that use a splice vertex of the read
GenesOnSplices(read, strand) ==
    {gene \in 1..shard.cnt.genes :
        \E i \in 2..(Len(read.positions) - 1) :
            <<SpliceVertex(read, i), gene, strand>> \in shard.vertex_2_gene}

OtherStrand(strand) == IF strand = "+" THEN "-" ELSE "+"

\* the read is spliced, all its splice vertices are known, none of them is a
\* vertex of a gene on the read's strand, and they match a gene of the other
\* strand (one gene, or several with a splice vertex in common)
MatchesOppositeStrandOnly(read) ==
    /\ Len(read.positions) >= 4
    /\ \A i \in 2..(Len(read.positions) - 1) : SpliceVertex(read, i) # None
    /\ GenesOnSplices(read, read.strand) = {}
    /\ GenesOnSplices(read, OtherStrand(read.strand)) # {}
    /\ \/ Cardinality(GenesOnSplices(read, OtherStrand(read.strand))) = 1
       \/ \E i \in 2..(Len(read.positions) - 1) : \E g1, g2 \in 1..shard.cnt.genes :
             /\ g1 # g2
             /\ <<SpliceVertex(read, i), g1, OtherStrand(read.strand)>> \in shard.vertex_2_gene
             /\ <<SpliceVertex(read, i), g2, OtherStrand(read.strand)>> \in shard.vertex_2_gene

\* C19: a spliced read whose splice vertices are all known and match a known
\* gene only on the opposite strand gets a new gene on the read's strand with
\* antisense_gene = TRUE and gene_antisense_to_IDs = the ID of a matched
\* opposite-strand gene, and a new transcript with antisense_transcript = TRUE
C19_SplicedAntisense ==
    \A read \in IsoformReads : MatchesOppositeStrandOnly(read) =>
        \A p \in GroupPicks :
            Let(Classified(read, p), LAMBDA s :
                /\ s.ret.gene_ID = shard.cnt.genes + 1
                /\ s.ret.transcript_ID = shard.cnt.transcripts + 1
                /\ \E k \in 1..Len(s.tmp_gene) :
                      /\ s.tmp_gene[k].gene_ID = s.ret.gene_ID
                      /\ s.tmp_gene[k].strand = read.strand
                /\ \E k \in 1..Len(s.ret.gene_novelty) :
                      s.ret.gene_novelty[k]
                         = Annot(s.ret.gene_ID, "antisense_gene", <<"TRUE">>)
                /\ \E k \in 1..Len(s.ret.gene_novelty) :
                      \E gene \in GenesOnSplices(read, OtherStrand(read.strand)) :
                          s.ret.gene_novelty[k]
                             = Annot(s.ret.gene_ID, "gene_antisense_to_IDs", Str(gene))
                /\ \E k \in 1..Len(s.ret.transcript_novelty) :
                      s.ret.transcript_novelty[k]
                         = Annot(s.ret.transcript_ID, "antisense_transcript", <<"TRUE">>))

\* the read - [30,25,15,10] on gene 1's splice sites became gene 3 on the -
\* strand, antisense to gene 1
C19_Witness ==
    \E i \in 1..Len(hist) :
        /\ hist[i].read.strand = "-"
        /\ hist[i].read.positions = <<30, 25, 15, 10>>
        /\ hist[i].ann.gene_ID = 3
        /\ \E k \in 1..Len(hist[i].ann.gene_novelty) :
              hist[i].ann.gene_novelty[k] = Annot(3, "gene_antisense_to_IDs", Str(1))
        /\ \E k \in 1..Len(shard.tmp_gene) :
              shard.tmp_gene[k].gene_ID = 3 /\ shard.tmp_gene[k].strand = "-"

\* the annotations have a gene / transcript novelty row with the attribute
HasGeneLabel(ann, attribute) ==
    \E k \in 1..Len(ann.gene_novelty) : ann.gene_novelty[k][2] = attribute

HasTranscriptLabel(ann, attribute) ==
    \E k \in 1..Len(ann.transcript_novelty) : ann.transcript_novelty[k][2] = attribute

\* the labels of which a new transcript carries one
CategoryLabels ==
    {"ISM_transcript", "NIC_transcript", "NNC_transcript", "antisense_transcript",
     "genomic_transcript", "intergenic_transcript", "fusion_transcript"}

\* the splice vertices of the annotated read that the graph did not have
\* before the read (vertex_IDs holds the start vertex, the splice vertices
\* and the end vertex)
NewSpliceVertices(ann) ==
    {i \in 2..(Len(ann.vertex_IDs) - 1) :
        \A k \in 1..Len(shard.location_dict) :
            shard.location_dict[k].location_ID # ann.vertex_IDs[i]}

\* the exons between the first and the last exon of the annotated read
\* (edge_IDs holds exons and introns in turn)
InteriorExons(ann) ==
    {i \in 3..(Len(ann.edge_IDs) - 2) : i % 2 = 1}

\* check_all_exons_novel on the read: it has exons between the first and the
\* last one, and the graph had none of them before the read
AllInteriorExonsNovel(ann) ==
    /\ InteriorExons(ann) # {}
    /\ \A i \in InteriorExons(ann) : \A k \in 1..Len(shard.edge_dict) :
          shard.edge_dict[k].edge_ID # ann.edge_IDs[i]

\* C30: for a read of several exons, the transcript is labeled NIC_transcript
\* only if none of the read's splice vertices was created for the read, and
\* NNC_transcript only if some splice vertex was created for it, the read is
\* not flagged fusion and not all its interior exons are novel; and every
\* transcript created for a read carries exactly one of the labels ISM, NIC,
\* NNC, antisense, genomic, intergenic, fusion
C30_CategoryGuards ==
    [][Len(hist') = Len(hist) + 1 =>
          LET ann == hist'[Len(hist')].ann
          IN /\ HasTranscriptLabel(ann, "NIC_transcript")
                   => NewSpliceVertices(ann) = {}
             /\ HasTranscriptLabel(ann, "NNC_transcript")
                   => /\ NewSpliceVertices(ann) # {}
                      /\ ~ann.fusion
                      /\ ~AllInteriorExonsNovel(ann)
             /\ ann.transcript_ID > shard.cnt.transcripts
                   => Cardinality({k \in 1..Len(ann.transcript_novelty) :
                          ann.transcript_novelty[k][2] \in CategoryLabels}) = 1]_vars

\* the read with the known junctions 15 and 40 joined anew is labeled NIC, and
\* then the read with the new junction 41 after the known exon 25-30 is
\* labeled NNC
C30_Witness ==
    /\ Len(hist) = 2
    /\ hist[1].read.positions = <<10, 15, 40, 45>>
    /\ HasTranscriptLabel(hist[1].ann, "NIC_transcript")
    /\ hist[2].read.positions = <<10, 15, 25, 30, 41, 45>>
    /\ HasTranscriptLabel(hist[2].ann, "NNC_transcript")

\* C39: for every read of two or more exons that identify_transcript
\* classifies, all_SJs_known implies splice_vertices_known: if
\* match_splice_vertices created a vertex for one of the read's splice
\* positions (sum(v_novelty) > 0), match_all_splice_edges finds one of its
\* introns new, so process_NIC is never called in the all_SJs_known branch
\* on a read with a new splice vertex
C39_JunctionsKnownImpliesVerticesKnown ==
    [][Len(hist') = Len(hist) + 1 =>
          \A read \in {hist'[Len(hist')].read} :
              Len(read.positions) > 2 =>
                  Let(match_splice_vertices(shard, read.chrom, read.positions, read.strand),
                      LAMBDA s1 :
                  Let(match_all_splice_edges(s1, s1.ret[1], read.strand),
                      LAMBDA s2 :
                      check_all_SJs_known(s2.ret[2]) => SumSeq(s1.ret[2]) = 0))]_vars

\* a read whose introns are all known and whose path is in no transcript
\* (NIC from the all_SJs_known branch), then a read for which two splice
\* vertices were created
C39_Witness ==
    /\ Len(hist) = 2
    /\ hist[1].read.positions = <<10, 15, 25, 30, 40, 45, 50, 55>>
    /\ hist[1].ann.edge_IDs = <<1, 2, 3, 4, 5, 8, 9>>
    /\ hist[1].ann.transcript_ID = IsoformCounters.transcripts + 1
    /\ HasTranscriptLabel(hist[1].ann, "NIC_transcript")
    /\ hist[2].read.positions = <<10, 15, 20, 22, 40, 45>>
    /\ hist[2].ann.vertex_IDs = <<1, 2, IsoformCounters.vertex + 1,
                                  IsoformCounters.vertex + 2, 5, 6>>
    /\ HasTranscriptLabel(hist[2].ann, "genomic_transcript")

----------------------------------------------------------------------------
(***************************************************************************)
(* SpecGeneMatch: find_gene_match_on_vertex_basis on every vertex_2_gene   *)
(* dict over three vertices and two genes, for every list of distinct      *)
(* query vertices and both strands.                                        *)
(***************************************************************************)
QueryVertices == 1..3
QueryGenes == 1..2
Strands == {"+", "-"}

\* the lists of distinct vertices of a read
VertexLists ==
    {vs \in UNION {[1..n -> QueryVertices] : n \in 1..3} :
        \A i, j \in 1..Len(vs) : i # j => vs[i] # vs[j]}

GeneMatchInit ==
    /\ \E v2g \in SUBSET (QueryVertices \X QueryGenes \X Strands) :
          shard = [loaded |-> TRUE, vertex_2_gene |-> v2g]
    /\ hist = <<>>
    /\ CounterOff
    /\ PipelineOff

\* one call of find_gene_match_on_vertex_basis
GeneMatch(vertex_IDs, strand) ==
    /\ hist = <<>>
    /\ hist' = <<[vertex_IDs |-> vertex_IDs, strand |-> strand,
                  found |-> find_gene_match_on_vertex_basis(vertex_IDs, strand,
                                                            shard.vertex_2_gene)]>>
    /\ UNCHANGED <<shard, nonsvars>>

GeneMatchNext == \E vertex_IDs \in VertexLists, strand \in Strands : GeneMatch(vertex_IDs, strand)

SpecGeneMatch == GeneMatchInit /\ [][GeneMatchNext]_vars

\* the query vertices of call h that belong to gene g on the strand of h
SharedWith(h, g) ==
    {v \in SeqToSet(h.vertex_IDs) : <<v, g, h.strand>> \in shard.vertex_2_gene}

\* the genes that have a query vertex of call h on its strand
MatchedGenes(h) == {g \in QueryGenes : SharedWith(h, g) # {}}

ReturnsGene(h, g) == h.found.gene = g /\ ~h.found.list.is_list /\ ~h.found.fusion

ReturnsFusion(h) == h.found.gene = None /\ ~h.found.list.is_list /\ h.found.fusion

ReturnsCandidates(h) ==
    /\ h.found.gene = None
    /\ h.found.list.is_list
    /\ h.found.list.ids = MatchedGenes(h)
    /\ ~h.found.fusion

\* two or more genes, each with exactly one query vertex of its own
OneVertexEach(h) ==
    /\ Cardinality(MatchedGenes(h)) >= 2
    /\ \A g \in MatchedGenes(h) : Cardinality(SharedWith(h, g)) = 1
    /\ \A g1, g2 \in MatchedGenes(h) : g1 # g2 => SharedWith(h, g1) # SharedWith(h, g2)

\* C16: with two or more same-strand genes matched, each by exactly one
\* query vertex of its own, the result is None with fusion = True; with no
\* same-strand gene matched it is (None, False); with exactly one gene
\* matched it is that gene with fusion = False
C16_FusionFlag ==
    \A k \in 1..Len(hist) :
        /\ OneVertexEach(hist[k]) => ReturnsFusion(hist[k])
        /\ MatchedGenes(hist[k]) = {} =>
              /\ hist[k].found.gene = None
              /\ ~hist[k].found.list.is_list
              /\ ~hist[k].found.fusion
        /\ \A g \in QueryGenes : MatchedGenes(hist[k]) = {g} => ReturnsGene(hist[k], g)

\* vertex 1 is of gene 1 only and vertex 2 of gene 2 only on the + strand,
\* and the query [1, 2] on + was flagged as a fusion
C16_Witness ==
    /\ hist # <<>>
    /\ hist[1].vertex_IDs = <<1, 2>>
    /\ hist[1].strand = "+"
    /\ SharedWith(hist[1], 1) = {1}
    /\ SharedWith(hist[1], 2) = {2}
    /\ ReturnsFusion(hist[1])

\* a query vertex of call h belongs to two or more of the matched genes
SharedVertex(h) ==
    \E v \in SeqToSet(h.vertex_IDs) : \E g1, g2 \in MatchedGenes(h) :
        g1 # g2 /\ v \in SharedWith(h, g1) /\ v \in SharedWith(h, g2)

----------------------------------------------------------------------------
(***************************************************************************)
(* SpecFusion: one shard classifies reads against an annotation of two     *)
(* genes with a gap between them:                                          *)
(*   gene 1, transcript 1: exons 10-15, 25-30                              *)
(*   gene 2, transcript 2: exons 70-75, 85-90                              *)
(* (both on the + strand of chr1).                                         *)
(***************************************************************************)
MaxFusionReads == 3

\* prepare_data_structures for the interval of chr1 that holds the two
\* transcripts above
prepare_data_structures_fusion(run_info) ==
    [loaded |-> TRUE,
     location_dict |->
        <<KnownVertex(1, 10), KnownVertex(2, 15), KnownVertex(3, 25),
          KnownVertex(4, 30), KnownVertex(5, 70), KnownVertex(6, 75),
          KnownVertex(7, 85), KnownVertex(8, 90)>>,
     edge_dict |->
        <<KnownEdge(1, 1, 2, "exon"), KnownEdge(2, 2, 3, "intron"),
          KnownEdge(3, 3, 4, "exon"), KnownEdge(4, 5, 6, "exon"),
          KnownEdge(5, 6, 7, "intron"), KnownEdge(6, 7, 8, "exon")>>,
     transcript_dict |->
        <<KnownTranscript(1, 1, <<1, 2, 3>>, <<1, 2, 3, 4>>, 10, 30),
          KnownTranscript(2, 2, <<4, 5, 6>>, <<5, 6, 7, 8>>, 70, 90)>>,
     tmp_t |-> <<KnownSpan(1, 1, 10, 30), KnownSpan(2, 2, 70, 90)>>,
     tmp_monoexon |-> <<>>,
     tmp_gene |->
        <<[gene_ID |-> 1, chromosome |-> "chr1", start |-> 10, end |-> 30,
           strand |-> "+"],
          [gene_ID |-> 2, chromosome |-> "chr1", start |-> 70, end |-> 90,
           strand |-> "+"]>>,
     vertex_2_gene |-> {<<v, 1, "+">> : v \in 1..4} \cup {<<v, 2, "+">> : v \in 5..8},
     gene_starts |-> <<[gene |-> 1, position |-> 10, vertex |-> 1],
                       [gene |-> 2, position |-> 70, vertex |-> 5]>>,
     gene_ends |-> <<[gene |-> 1, position |-> 30, vertex |-> 4],
                     [gene |-> 2, position |-> 90, vertex |-> 8]>>,
     cnt |-> [genes |-> 2, transcripts |-> 2, vertex |-> 8, edge |-> 6,
              observed |-> 0, dataset |-> 0],
     run_info |-> run_info,
     group_pick |-> "none",
     ret |-> None]

FusionReads ==
    { Read("chr1", "+", <<10, 15, 25, 40>>, TRUE),
      Read("chr1", "+", <<60, 75, 85, 90>>, TRUE),
      Read("chr1", "+", <<36, 40, 60, 64>>, TRUE),
      Read("chr1", "+", <<10, 15, 85, 90>>, TRUE),
      Read("chr1", "+", <<40, 44, 50, 56>>, TRUE),
      Read("chr1", "-", <<28, 22, 18, 12>>, TRUE) }

FusionInit ==
    /\ \E b \in BOOLEAN : shard = prepare_data_structures_fusion(RunInfo(b))
    /\ hist = <<>>
    /\ CounterOff
    /\ PipelineOff

\* one iteration of parallel_talon's loop for a read that passed QC
ClassifyFusionRead(read, group_pick) ==
    /\ Len(hist) < MaxFusionReads
    /\ \E s \in {annotate_read([shard EXCEPT !.group_pick = group_pick], read)} :
          /\ shard' = [s EXCEPT !.ret = None, !.group_pick = "none"]
          /\ hist' = Append(hist, [read |-> read, ann |-> s.ret])
    /\ UNCHANGED nonsvars

FusionNext == \E read \in FusionReads, g \in GroupPicks : ClassifyFusionRead(read, g)

SpecFusion == FusionInit /\ [][FusionNext]_vars

\* C18: a read gets a new gene / transcript labeled fusion_novel /
\* fusion_transcript only when create_novel_spliced_genes is on and the read
\* was flagged fusion; with the flag off, a fusion-flagged read for which the
\* overlap search finds no gene is labeled intergenic_novel /
\* intergenic_transcript
C18_FusionLabels ==
    \A k \in 1..Len(hist) :
        /\ (\/ HasGeneLabel(hist[k].ann, "fusion_novel")
            \/ HasTranscriptLabel(hist[k].ann, "fusion_transcript"))
              => shard.run_info.create_novel_spliced_genes /\ hist[k].ann.fusion
        /\ (/\ ~shard.run_info.create_novel_spliced_genes
            /\ hist[k].ann.fusion
            /\ hist[k].ann.category \in {"fusion", "intergenic"})
              => /\ HasGeneLabel(hist[k].ann, "intergenic_novel")
                 /\ HasTranscriptLabel(hist[k].ann, "intergenic_transcript")

\* the gene rows / transcript rows of a result that carry a label (the rows
\* before the status and name rows), as <<attribute, value>>
Labels(rows) == [k \in 1..Len(rows) |-> <<rows[k][2], rows[k][3]>>]

\* C31: process_remaining_mult_cases on the read being classified, with either
\* fusion flag, in the graph before the read: a gene found by the overlap search on the
\* read's strand gets a new transcript labeled genomic_transcript and no gene
\* is created; a gene found on the other strand leads to a new gene labeled
\* antisense_gene with gene_antisense_to_IDs naming the found gene; no gene
\* found leads to a new gene labeled intergenic_novel, or fusion_novel if
\* the read is flagged fusion
C31_FallbackResolution ==
    [][Len(hist') = Len(hist) + 1 =>
    \A read \in {hist'[Len(hist')].read} : \A fusion \in BOOLEAN : \A p \in GroupPicks :
    Let(match_splice_vertices([shard EXCEPT !.group_pick = p], read.chrom,
                              read.positions, read.strand), LAMBDA sv :
    Let(match_all_splice_edges(sv, sv.ret[1], read.strand), LAMBDA se :
    Let(IF ~se.run_info.create_novel_spliced_genes \/ ~fusion
        THEN search_for_overlap_with_gene(se, read.chrom, read.positions[1],
                 Last(read.positions), read.strand, NoGeneList)
        ELSE <<None, None>>, LAMBDA found :
    Let(process_remaining_mult_cases(se, read.chrom, read.positions, read.strand,
                                     se.ret[1], sv.ret[1], fusion), LAMBDA out :
        /\ out.ret.transcript_ID = se.cnt.transcripts + 1
        /\ out.cnt.transcripts = se.cnt.transcripts + 1
        /\ \E k \in 1..Len(out.transcript_dict) :
              /\ out.transcript_dict[k].transcript_ID = out.ret.transcript_ID
              /\ out.transcript_dict[k].gene_ID = out.ret.gene_ID
        /\ IF found[1] # None /\ found[2] = read.strand
           THEN /\ out.ret.gene_ID = found[1]
                /\ out.cnt.genes = se.cnt.genes
                /\ out.tmp_gene = se.tmp_gene
                /\ Labels(out.ret.gene_novelty) = <<>>
                /\ Labels(out.ret.transcript_novelty)
                      = << <<"genomic_transcript", <<"TRUE">>>> >>
           ELSE /\ out.ret.gene_ID = se.cnt.genes + 1
                /\ out.cnt.genes = se.cnt.genes + 1
                /\ Len(out.tmp_gene) = Len(se.tmp_gene) + 1
                /\ IF found[1] # None
                   THEN Labels(out.ret.gene_novelty)
                           = << <<"antisense_gene", <<"TRUE">>>>,
                                <<"gene_antisense_to_IDs", Str(found[1])>> >>
                   ELSE Labels(out.ret.gene_novelty)
                           = << <<IF fusion THEN "fusion_novel" ELSE "intergenic_novel",
                                  <<"TRUE">>>> >>))))]_vars

\* the three cases have happened: a - strand read over gene 1 became an
\* antisense gene, a read between the genes an intergenic gene, and a further
\* read a genomic transcript of that gene
C31_Witness ==
    /\ Len(hist) = 3
    /\ hist[1].read.strand = "-"
    /\ hist[1].ann.category = "antisense"
    /\ Labels(hist[1].ann.gene_novelty)[2] = <<"gene_antisense_to_IDs", Str(1)>>
    /\ hist[2].ann.category = "intergenic"
    /\ HasGeneLabel(hist[2].ann, "intergenic_novel")
    /\ hist[3].ann.category = "genomic"
    /\ hist[3].ann.gene_ID = hist[2].ann.gene_ID
    /\ HasTranscriptLabel(hist[3].ann, "genomic_transcript")

\* the transcript with the ID in the graph before the read
TranscriptBefore(transcript_ID) ==
    shard.transcript_dict[CHOOSE k \in 1..Len(shard.transcript_dict) :
                              shard.transcript_dict[k].transcript_ID = transcript_ID]

\* both ends of the read are within the cutoffs of the transcript's ends
EndsWithinCutoffs(read, t) ==
    /\ Abs(compute_delta(t.start_pos, read.positions[1], read.strand))
          <= shard.run_info.cutoff_5p
    /\ Abs(compute_delta(t.end_pos, Last(read.positions), read.strand))
          <= shard.run_info.cutoff_3p

\* C36: a read classified FSM allocates no transcript and no gene ID, also
\* when one of its ends is beyond the cutoff; when both ends are within the
\* cutoffs it allocates no vertex and no edge ID either, and its start/end
\* vertex and start/end exon are those of the matched transcript
C36_FSMFrame ==
    [][(/\ Len(hist') = Len(hist) + 1
        /\ hist'[Len(hist')].ann.category = "FSM") =>
          LET read == hist'[Len(hist')].read
              ann == hist'[Len(hist')].ann
              t == TranscriptBefore(ann.transcript_ID)
          IN /\ ann.transcript_ID <= shard.cnt.transcripts
             /\ ann.gene_ID = t.gene_ID
             /\ shard'.cnt.transcripts = shard.cnt.transcripts
             /\ shard'.cnt.genes = shard.cnt.genes
             /\ Len(shard'.tmp_t) = Len(shard.tmp_t)
             /\ ann.gene_novelty = <<>> /\ ann.transcript_novelty = <<>>
             /\ EndsWithinCutoffs(read, t) =>
                   /\ shard'.cnt.vertex = shard.cnt.vertex
                   /\ shard'.cnt.edge = shard.cnt.edge
                   /\ ann.start_vertex = t.start_vertex
                   /\ ann.end_vertex = t.end_vertex
                   /\ ann.start_exon = t.start_exon
                   /\ ann.end_exon = t.end_exon]_vars

\* an FSM read with its end 10 beyond the end of transcript 1 got a new end
\* vertex but transcript 1; then a read joining the two genes got the new
\* transcript 3, and the same read again is an FSM of transcript 3 with
\* nothing new
C36_Witness ==
    /\ Len(hist) = 3
    /\ hist[1].read.positions = <<10, 15, 25, 40>>
    /\ hist[1].ann.category = "FSM" /\ hist[1].ann.transcript_ID = 1
    /\ hist[1].ann.end_vertex = 9
    /\ hist[2].read.positions = <<10, 15, 85, 90>>
    /\ hist[2].ann.transcript_ID = 3
    /\ hist[3].read.positions = <<10, 15, 85, 90>>
    /\ hist[3].ann.category = "FSM" /\ hist[3].ann.transcript_ID = 3
    /\ hist[3].ann.start_vertex = 1 /\ hist[3].ann.end_vertex = 8
    /\ shard.cnt.transcripts = 3 /\ shard.cnt.vertex = 9

----------------------------------------------------------------------------
(***************************************************************************)
(* SpecMonoexon: one shard classifies reads of one exon that lie beyond    *)
(* the known genes, two apart from each other and one over both, on either *)
(* strand.                                                                 *)
(***************************************************************************)
MonoexonReads ==
    { Read("chr1", "+", <<40, 50>>, TRUE),
      Read("chr1", "+", <<60, 70>>, TRUE),
      Read("chr1", "+", <<42, 65>>, TRUE),
      Read("chr1", "-", <<50, 40>>, TRUE),
      Read("chr1", "-", <<70, 60>>, TRUE),
      Read("chr1", "-", <<65, 42>>, TRUE) }

MonoexonNext ==
    \E read \in MonoexonReads, g \in GroupPicks : ClassifyFusionRead(read, g)

SpecMonoexon == ShardInit /\ [][MonoexonNext]_vars

\* the number of positions that the row's interval and the interval lo..hi
\* have in common
IntervalOverlap(row, lo, hi) ==
    Max2(0, Min2(row.max_pos, hi) - Max2(row.min_pos, lo) + 1)

\* the rows of temp_monoexon on the read's chromosome and strand that overlap
\* the read
MonoexonOverlaps(read) ==
    {k \in 1..Len(shard.tmp_monoexon) :
        /\ shard.tmp_monoexon[k].chromosome = read.chrom
        /\ shard.tmp_monoexon[k].strand = read.strand
        /\ IntervalOverlap(shard.tmp_monoexon[k],
                           Min2(read.positions[1], read.positions[2]),
                           Max2(read.positions[1], read.positions[2])) > 0}

\* C34: a read of one exon that overlaps monoexonic transcripts registered
\* before it on its chromosome and strand, + or -, gets the gene and
\* transcript ID of one whose interval overlaps the read's most, and no
\* vertex, edge, gene or transcript is created for it
C34_MonoexonMaxOverlap ==
    [][Len(hist') = Len(hist) + 1 =>
          LET read == hist'[Len(hist')].read
              ann == hist'[Len(hist')].ann
              lo == Min2(read.positions[1], read.positions[2])
              hi == Max2(read.positions[1], read.positions[2])
          IN (Len(read.positions) = 2 /\ MonoexonOverlaps(read) # {}) =>
                /\ \E k \in MonoexonOverlaps(read) :
                      /\ ann.gene_ID = shard.tmp_monoexon[k].gene_ID
                      /\ ann.transcript_ID = shard.tmp_monoexon[k].transcript_ID
                      /\ \A j \in MonoexonOverlaps(read) :
                            IntervalOverlap(shard.tmp_monoexon[j], lo, hi)
                               <= IntervalOverlap(shard.tmp_monoexon[k], lo, hi)
                /\ shard'.cnt.vertex = shard.cnt.vertex
                /\ shard'.cnt.edge = shard.cnt.edge
                /\ shard'.cnt.genes = shard.cnt.genes
                /\ shard'.cnt.transcripts = shard.cnt.transcripts]_vars

----------------------------------------------------------------------------
(***************************************************************************)
(* SpecPaths: one shard classifies reads on a graph whose edge IDs have    *)
(* one and two digits:                                                     *)
(*   gene 1, transcript 1: exons 10-15, 25-30, 40-45 with the edges        *)
(*   50 (exon), 51 (intron), 6 (exon), 5 (intron), 7 (exon).               *)
(***************************************************************************)
prepare_data_structures_paths(run_info) ==
    [loaded |-> TRUE,
     location_dict |->
        <<KnownVertex(1, 10), KnownVertex(2, 15), KnownVertex(3, 25),
          KnownVertex(4, 30), KnownVertex(5, 40), KnownVertex(6, 45)>>,
     edge_dict |->
        <<KnownEdge(5, 4, 5, "intron"), KnownEdge(6, 3, 4, "exon"),
          KnownEdge(7, 5, 6, "exon"), KnownEdge(50, 1, 2, "exon"),
          KnownEdge(51, 2, 3, "intron")>>,
     transcript_dict |->
        <<KnownTranscript(1, 1, <<50, 51, 6, 5, 7>>, <<1, 2, 3, 4, 5, 6>>, 10, 45)>>,
     tmp_t |-> <<KnownSpan(1, 1, 10, 45)>>,
     tmp_monoexon |-> <<>>,
     tmp_gene |->
        <<[gene_ID |-> 1, chromosome |-> "chr1", start |-> 10, end |-> 45,
           strand |-> "+"]>>,
     vertex_2_gene |-> {<<v, 1, "+">> : v \in 1..6},
     gene_starts |-> <<[gene |-> 1, position |-> 10, vertex |-> 1]>>,
     gene_ends |-> <<[gene |-> 1, position |-> 45, vertex |-> 6]>>,
     cnt |-> [genes |-> 1, transcripts |-> 1, vertex |-> 6, edge |-> 51,
              observed |-> 0, dataset |-> 0],
     run_info |-> run_info,
     group_pick |-> "none",
     ret |-> None]

PathReads ==
    { Read("chr1", "+", <<10, 15, 25, 30, 40, 45>>, TRUE),
      Read("chr1", "+", <<10, 15, 25, 30>>, TRUE),
      Read("chr1", "+", <<25, 30, 40, 45>>, TRUE),
      Read("chr1", "+", <<27, 30, 40, 52>>, TRUE) }

PathsInit ==
    /\ \E b \in BOOLEAN : shard = prepare_data_structures_paths(RunInfo(b))
    /\ hist = <<>>
    /\ CounterOff
    /\ PipelineOff

PathsNext == \E read \in PathReads, g \in GroupPicks : ClassifyFusionRead(read, g)

SpecPaths == PathsInit /\ [][PathsNext]_vars

\* C35: a read classified ISM is labeled ISM-prefix (ISM-suffix) with the ID
\* of a transcript only if the read's interior edge IDs are the first (last)
\* edge IDs of that transcript's interior path, as whole IDs: the edge 5 is
\* not a prefix of the path 51, 6, 5
C35_PrefixSuffixOnlyIfSubpath ==
    \A read \in PathReads : \A p \in GroupPicks :
        Let(Classified(read, p).ret, LAMBDA ann :
            ann.category = "ISM" =>
                Let(MapStr(InteriorPath(read)), LAMBDA query :
                    \A k \in 1..Len(shard.transcript_dict) :
                        Let(shard.transcript_dict[k], LAMBDA t :
                            t.jn_path # NoneNum =>
                               /\ IsLabeled(ann, t, "prefix")
                                     => PathPrefix(query, SplitComma(t.jn_path[1]))
                               /\ IsLabeled(ann, t, "suffix")
                                     => PathSuffix(query, SplitComma(t.jn_path[1])))))

----------------------------------------------------------------------------
(***************************************************************************)
(* SpecOverlap: search_for_overlap_with_gene on every temp_t table of up   *)
(* to MaxSpans transcript spans, for reads of both strands, with and       *)
(* without a list of candidate genes.                                      *)
(***************************************************************************)
MaxSpans == 3

\* the rows temp_t can hold: genes 1 and 2 on +, gene 3 on -, gene 4 on chr2
TranscriptSpans ==
    { [gene_ID |-> 1, transcript_ID |-> 1, chromosome |-> "chr1", strand |-> "+",
       min_pos |-> 10, max_pos |-> 20],
      [gene_ID |-> 1, transcript_ID |-> 2, chromosome |-> "chr1", strand |-> "+",
       min_pos |-> 12, max_pos |-> 30],
      [gene_ID |-> 2, transcript_ID |-> 3, chromosome |-> "chr1", strand |-> "+",
       min_pos |-> 14, max_pos |-> 24],
      [gene_ID |-> 2, transcript_ID |-> 4, chromosome |-> "chr1", strand |-> "+",
       min_pos |-> 40, max_pos |-> 50],
      [gene_ID |-> 3, transcript_ID |-> 5, chromosome |-> "chr1", strand |-> "-",
       min_pos |-> 10, max_pos |-> 20],
      [gene_ID |-> 3, transcript_ID |-> 6, chromosome |-> "chr1", strand |-> "-",
       min_pos |-> 30, max_pos |-> 40],
      [gene_ID |-> 4, transcript_ID |-> 7, chromosome |-> "chr2", strand |-> "+",
       min_pos |-> 10, max_pos |-> 20] }

OverlapInit ==
    /\ \E n \in 0..MaxSpans : \E tmp_t \in [1..n -> TranscriptSpans] :
          /\ \A i, k \in 1..n : tmp_t[i] = tmp_t[k] => i = k
          /\ shard = [loaded |-> TRUE, tmp_t |-> tmp_t, group_pick |-> "none"]
    /\ hist = <<>>
    /\ CounterOff
    /\ PipelineOff

\* one call of search_for_overlap_with_gene for a read on chr1 from start to
\* end (positions[0], positions[-1])
OverlapSearch(start, end, strand, gene_IDs, group_pick) ==
    /\ hist = <<>>
    /\ hist' = <<[start |-> start, end |-> end, strand |-> strand,
                  gene_IDs |-> gene_IDs, group_pick |-> group_pick,
                  found |-> search_for_overlap_with_gene(
                               [shard EXCEPT !.group_pick = group_pick],
                               "chr1", start, end, strand, gene_IDs)]>>
    /\ UNCHANGED <<shard, nonsvars>>

OverlapNext ==
    \E ends \in {<<12, 22>>, <<25, 35>>, <<60, 70>>}, strand \in {"+", "-"} :
    \E gene_IDs \in {NoGeneList, GeneList({1, 2}), GeneList({1, 3}), GeneList({2, 4})} :
    \E group_pick \in GroupPicks :
        IF strand = "+"
        THEN OverlapSearch(ends[1], ends[2], strand, gene_IDs, group_pick)
        ELSE OverlapSearch(ends[2], ends[1], strand, gene_IDs, group_pick)

SpecOverlap == OverlapInit /\ [][OverlapNext]_vars

\* the rows the query of the call returned
Hits(h) ==
    IF h.gene_IDs.is_list
    THEN FilterSeq(shard.tmp_t, LAMBDA r : r.gene_ID \in h.gene_IDs.ids)
    ELSE GroupByGene(FilterSeq(shard.tmp_t, LAMBDA r :
                        /\ r.chromosome = "chr1"
                        /\ SqlOverlaps(r, Min2(h.start, h.end), Max2(h.start, h.end))),
                     h.group_pick)

\* |max_pos - read end| + |min_pos - read start| on the read's interval
EndDistance(r, h) ==
    Abs(r.max_pos - Max2(h.start, h.end)) + Abs(r.min_pos - Min2(h.start, h.end))

\* the strand of the hits the call chooses from
PreferredStrand(h) ==
    IF \E i \in 1..Len(Hits(h)) : Hits(h)[i].strand = h.strand
    THEN h.strand ELSE OtherStrand(h.strand)

\* C25: with no hits the result is (None, None); otherwise the result is a
\* hit of the read's strand if there is one and of the opposite strand only
\* if there is none, and among those hits it is the first of the ones with
\* the least |max_pos - read end| + |min_pos - read start|
C25_StrandThenDistance ==
    \A n \in 1..Len(hist) :
        Let(Hits(hist[n]), LAMBDA hits :
            IF Len(hits) = 0 THEN hist[n].found = <<None, None>>
            ELSE \E i \in 1..Len(hits) :
                    /\ hist[n].found = <<hits[i].gene_ID, hits[i].strand>>
                    /\ hits[i].strand = PreferredStrand(hist[n])
                    /\ \A k \in 1..Len(hits) :
                          hits[k].strand = PreferredStrand(hist[n]) =>
                              \/ EndDistance(hits[k], hist[n]) > EndDistance(hits[i], hist[n])
                              \/ (/\ EndDistance(hits[k], hist[n]) = EndDistance(hits[i], hist[n])
                                  /\ i <= k))

\* a + read 12-22 with the spans 14-24 of gene 2 and 10-20 of gene 1, both 4
\* away, and a - span: gene 2, the first of the two, is returned
C25_Witness ==
    /\ Len(hist) = 1
    /\ hist[1].strand = "+" /\ hist[1].start = 12
    /\ hist[1].gene_IDs = GeneList({1, 2})
    /\ Len(shard.tmp_t) = 3
    /\ shard.tmp_t[1].gene_ID = 3
    /\ shard.tmp_t[2].gene_ID = 2 /\ shard.tmp_t[2].min_pos = 14
    /\ shard.tmp_t[3].gene_ID = 1 /\ shard.tmp_t[3].min_pos = 10
    /\ hist[1].found = <<2, "+">>

\* C26: every gene search_for_overlap_with_gene returns, with or without a
\* list of candidate genes, has a transcript on the read's chromosome whose
\* span [min_pos, max_pos] overlaps the read's interval (bounds included)
C26_ReturnedGeneOverlaps ==
    \A n \in 1..Len(hist) :
        hist[n].found[1] # None =>
            \E i \in 1..Len(shard.tmp_t) :
                /\ shard.tmp_t[i].gene_ID = hist[n].found[1]
                /\ shard.tmp_t[i].chromosome = "chr1"
                /\ shard.tmp_t[i].min_pos <= Max2(hist[n].start, hist[n].end)
                /\ shard.tmp_t[i].max_pos >= Min2(hist[n].start, hist[n].end)

----------------------------------------------------------------------------
(***************************************************************************)
(* SpecDelta: compute_delta on every pair of positions up to MaxPosition,  *)
(* for the two strands and for a strand that is neither.                   *)
(***************************************************************************)
MaxPosition == 6

DeltaInit ==
    /\ \E orig_pos \in 0..MaxPosition, new_pos \in 0..MaxPosition :
          shard = [loaded |-> TRUE, orig_pos |-> orig_pos, new_pos |-> new_pos]
    /\ hist = <<>>
    /\ CounterOff
    /\ PipelineOff

\* one call compute_delta(orig_pos, new_pos, strand), and the call with the
\* positions exchanged
ComputeDelta(strand) ==
    /\ hist = <<>>
    /\ hist' = <<[strand |-> strand,
                  delta |-> compute_delta(shard.orig_pos, shard.new_pos, strand),
                  back |-> compute_delta(shard.new_pos, shard.orig_pos, strand)]>>
    /\ UNCHANGED <<shard, nonsvars>>

DeltaNext == \E strand \in {"+", "-", "."} : ComputeDelta(strand)

SpecDelta == DeltaInit /\ [][DeltaNext]_vars

\* C33: compute_delta(orig, new, strand) is |orig - new| in magnitude (0 for
\* equal positions), on the + strand negative exactly when new < orig, on the
\* - strand the negative of the + strand's value, and changes sign when the
\* positions are exchanged; a strand other than + and - raises ValueError
C33_SignedDistance ==
    \A n \in 1..Len(hist) :
        IF hist[n].strand \in {"+", "-"}
        THEN /\ Abs(hist[n].delta) = Abs(shard.orig_pos - shard.new_pos)
             /\ shard.orig_pos = shard.new_pos => hist[n].delta = 0
             /\ hist[n].strand = "+" =>
                   (hist[n].delta < 0 <=> shard.new_pos < shard.orig_pos)
             /\ hist[n].strand = "-" =>
                   (hist[n].delta > 0 <=> shard.new_pos < shard.orig_pos)
             /\ hist[n].delta
                   = -compute_delta(shard.orig_pos, shard.new_pos,
                                    IF hist[n].strand = "+" THEN "-" ELSE "+")
             /\ hist[n].delta = -hist[n].back
        ELSE hist[n].delta = "ValueError"

\* the new position lies 2 below the original one on the - strand: +2
C33_Witness ==
    /\ Len(hist) = 1
    /\ hist[1].strand = "-"
    /\ shard.orig_pos = 5 /\ shard.new_pos = 3
    /\ hist[1].delta = 2 /\ hist[1].back = -2

----------------------------------------------------------------------------
(***************************************************************************)
(* SpecEnds: permissive_vertex_search and                                  *)
(* permissive_match_with_gene_priority for a read end at EndPosition, on   *)
(* every set of up to MaxVertices vertices around it, any of them a known  *)
(* start/end of gene 1, with cutoff_5p = 3 and cutoff_3p = 4.              *)
(***************************************************************************)
MaxVertices == 2

EndPosition == 20

\* where a vertex can be: up to 5 on either side of the read's end
VertexPositions == (EndPosition - 5)..(EndPosition + 5)

EndsInit ==
    /\ \E at \in SUBSET VertexPositions : \E owned \in SUBSET at :
          /\ Cardinality(at) <= MaxVertices
          /\ shard = [loaded |-> TRUE,
                      location_dict |-> [k \in 1..Cardinality(at) |->
                                            KnownVertex(SortedSeq(at)[k], SortedSeq(at)[k])],
                      gene_locs |-> [k \in 1..Cardinality(owned) |->
                                        [gene |-> 1, position |-> SortedSeq(owned)[k],
                                         vertex |-> SortedSeq(owned)[k]]],
                      run_info |-> [RunInfo(FALSE) EXCEPT !.cutoff_5p = 3,
                                                          !.cutoff_3p = 4]]
    /\ hist = <<>>
    /\ CounterOff
    /\ PipelineOff

\* one call of permissive_vertex_search
VertexSearch(strand, sj_pos, pos_type) ==
    /\ hist = <<>>
    /\ hist' = <<[fn |-> "permissive_vertex_search", strand |-> strand,
                  sj_pos |-> sj_pos, pos_type |-> pos_type, gene_ID |-> None,
                  found |-> permissive_vertex_search("chr1", EndPosition, strand, sj_pos,
                                pos_type, shard.location_dict, shard.run_info)]>>
    /\ UNCHANGED <<shard, nonsvars>>

\* one call of permissive_match_with_gene_priority
GenePriorityMatch(strand, sj_pos, pos_type, gene_ID) ==
    /\ hist = <<>>
    /\ hist' = <<[fn |-> "permissive_match_with_gene_priority", strand |-> strand,
                  sj_pos |-> sj_pos, pos_type |-> pos_type, gene_ID |-> gene_ID,
                  found |-> permissive_match_with_gene_priority("chr1", EndPosition,
                                strand, sj_pos, pos_type, gene_ID, shard.gene_locs,
                                shard.location_dict, shard.run_info)]>>
    /\ UNCHANGED <<shard, nonsvars>>

\* the read's end and the splice junction next to it: a + start and a - end
\* lie below their junction, a - start and a + end above it
EndsNext ==
    \E strand \in {"+", "-"}, pos_type \in {"start", "end"}, gap \in {2, 3, 10} :
    \E sj_pos \in {IF (strand = "+") = (pos_type = "start")
                   THEN EndPosition + gap ELSE EndPosition - gap} :
        \/ VertexSearch(strand, sj_pos, pos_type)
        \/ \E gene_ID \in {1, 2} : GenePriorityMatch(strand, sj_pos, pos_type, gene_ID)

SpecEnds == EndsInit /\ [][EndsNext]_vars

\* the position of the vertex with the ID
PositionOf(vertex_ID) ==
    LET k == CHOOSE k \in 1..Len(shard.location_dict) :
                 shard.location_dict[k].location_ID = vertex_ID
    IN shard.location_dict[k].position

\* the call looks first towards smaller coordinates, and up to the junction
\* above it
Upstream(h) == (h.strand = "+") = (h.pos_type = "start")

\* the vertices permissive_vertex_search may return when there is none at
\* the position: nearer than the cutoff and before the splice junction
ValidVertices(h) ==
    {q \in {shard.location_dict[k].position : k \in 1..Len(shard.location_dict)} :
        /\ q # EndPosition
        /\ Abs(q - EndPosition) < Cutoff(h.pos_type)
        /\ IF Upstream(h) THEN q < h.sj_pos ELSE q > h.sj_pos}

\* C27: permissive_vertex_search returns the vertex at the position with
\* distance 0 if there is one; otherwise the valid vertex nearest to the
\* position, of two equally near ones the one at the smaller coordinate for a
\* + start or a - end and at the larger coordinate otherwise; and
\* (None, None) when there is no valid vertex
C27_NearestValidVertex ==
    \A n \in 1..Len(hist) : hist[n].fn = "permissive_vertex_search" =>
        IF \E k \in 1..Len(shard.location_dict) :
              shard.location_dict[k].position = EndPosition
        THEN hist[n].found = <<EndPosition, Some(0)>>
        ELSE IF ValidVertices(hist[n]) = {}
        THEN hist[n].found = <<None, NoneNum>>
        ELSE \E q \in ValidVertices(hist[n]) :
                /\ hist[n].found
                      = <<q, Some(compute_delta(q, EndPosition, hist[n].strand))>>
                /\ \A r \in ValidVertices(hist[n]) :
                      \/ Abs(r - EndPosition) > Abs(q - EndPosition)
                      \/ r = q
                      \/ (/\ Abs(r - EndPosition) = Abs(q - EndPosition)
                          /\ IF Upstream(hist[n]) THEN q < r ELSE q > r)

\* vertices 2 below and 2 above a - strand end: the one below is returned;
\* the same for a + strand end returns the one above
C27_Witness ==
    /\ Len(hist) = 1
    /\ hist[1].fn = "permissive_vertex_search"
    /\ hist[1].strand = "-" /\ hist[1].pos_type = "end"
    /\ hist[1].sj_pos = EndPosition + 10
    /\ {shard.location_dict[k].position : k \in 1..Len(shard.location_dict)}
          = {EndPosition - 2, EndPosition + 2}
    /\ hist[1].found[1] = EndPosition - 2

\* C28: every match of permissive_vertex_search and of
\* permissive_match_with_gene_priority that is not at the position itself
\* lies strictly between the position -/+ the cutoff and the splice junction
\* next to the end: nearer than the cutoff and not at or beyond the junction
C28_StrictlyInsideWindow ==
    \A n \in 1..Len(hist) :
        (hist[n].found[1] # None /\ hist[n].found[2] # Some(0)) =>
            /\ Abs(PositionOf(hist[n].found[1]) - EndPosition) < Cutoff(hist[n].pos_type)
            /\ IF Upstream(hist[n])
               THEN PositionOf(hist[n].found[1]) < hist[n].sj_pos
               ELSE PositionOf(hist[n].found[1]) > hist[n].sj_pos

\* the known starts/ends of the gene that the gene-priority pass accepts:
\* inside the search window and within the cutoff (bounds included)
TerminiInRange(h) ==
    {q \in {shard.gene_locs[k].position : k \in 1..Len(shard.gene_locs)} :
        /\ h.gene_ID = 1
        /\ Abs(q - EndPosition) <= Cutoff(h.pos_type)
        /\ IF Upstream(h) THEN q <= h.sj_pos ELSE q >= h.sj_pos}

\* C29: with no vertex at the position, permissive_match_with_gene_priority
\* returns the nearest known start/end of the gene inside the window and the
\* cutoff, flagged known = 1, whatever other vertices are nearer; only when
\* the gene has none there does it return what permissive_vertex_search
\* returns, flagged known = 0
C29_GeneTerminusFirst ==
    \A n \in 1..Len(hist) :
        (/\ hist[n].fn = "permissive_match_with_gene_priority"
         /\ \A k \in 1..Len(shard.location_dict) :
               shard.location_dict[k].position # EndPosition) =>
            IF TerminiInRange(hist[n]) # {}
            THEN \E q \in TerminiInRange(hist[n]) :
                    /\ hist[n].found
                          = <<q, Some(compute_delta(q, EndPosition, hist[n].strand)), 1>>
                    /\ \A r \in TerminiInRange(hist[n]) :
                          Abs(r - EndPosition) >= Abs(q - EndPosition)
            ELSE Let(permissive_vertex_search("chr1", EndPosition, hist[n].strand,
                         hist[n].sj_pos, hist[n].pos_type, shard.location_dict,
                         shard.run_info),
                     LAMBDA plain : hist[n].found = <<plain[1], plain[2], 0>>)

\* a + start with a vertex 1 below that is not the gene's and a start of the
\* gene 3 below: the gene's start is returned
C29_Witness ==
    /\ Len(hist) = 1
    /\ hist[1].fn = "permissive_match_with_gene_priority"
    /\ hist[1].strand = "+" /\ hist[1].pos_type = "start" /\ hist[1].gene_ID = 1
    /\ {shard.location_dict[k].position : k \in 1..Len(shard.location_dict)}
          = {EndPosition - 3, EndPosition - 1}
    /\ {shard.gene_locs[k].position : k \in 1..Len(shard.gene_locs)} = {EndPosition - 3}
    /\ hist[1].found = <<EndPosition - 3, Some(3), 1>>

----------------------------------------------------------------------------
(***************************************************************************)
(* Spec: a whole run.  main registers the datasets, starts the listener    *)
(* and the parallel_talon jobs on the pool, sends the sentinel when the    *)
(* jobs have returned, joins the pool and calls update_database.           *)
(*                                                                         *)
(* A job's step is one iteration of its loop over the reads, or its final  *)
(* writing of the shard's new entries: the puts of one step reach the      *)
(* queue in program order, and the Counters serialise the increments (see  *)
(* SpecCounter).  A line is the sequence of its tab-separated columns.     *)
(***************************************************************************)
NumDatasets == 1

Jobs == {1, 2}

\* the interval (chromosome) of a job: procsams.partition_reads gives
\* every job its own interval
JobChrom(j) == IF j = 1 THEN "chr1" ELSE "chr2"

\* the reads a job's file can hold
JobReads(j) ==
    IF j = 1
    THEN { << Read("chr1", "+", <<10, 11>>, TRUE), Read("chr1", "+", <<12, 19>>, TRUE) >>,
           << Read("chr1", "+", <<10, 15, 25, 26>>, TRUE) >>,
           << Read("chr1", "+", <<10, 15, 20, 26>>, FALSE),
              Read("chr1", "-", <<19, 12>>, TRUE) >>,
           << Read("chr1", "+", <<50, 60>>, TRUE) >> }
    ELSE { << Read("chr2", "+", <<50, 60, 70, 80>>, TRUE) >>,
           << Read("chr2", "-", <<90, 85>>, TRUE) >> }

\* the outfiles of init_outfiles
Files == {"qc", "abundance", "genes", "transcripts", "edges", "v2g", "location",
          "observed", "gene_annot", "transcript_annot", "exon_annot"}

Msg(file, value) == [file |-> file, value |-> value]

\* msg_done = (None, "complete")
msg_done == Msg("None", <<"complete">>)

StrNone == <<"N", "o", "n", "e">>
StrOpt(x) == IF x = NoneNum THEN StrNone ELSE Str(x[1])
StrBool(b) == IF b THEN <<"T", "r", "u", "e">> ELSE <<"F", "a", "l", "s", "e">>

\* the name of the dataset of every read (its RG tag)
DatasetName(d) == <<"d">> \o Str(d)

\* ---- check_inputs
\* main's options as check_inputs reads them (whether the database file
\* exists, whether the build is one of the database's genome_build names,
\* --cb, the dataset names of the database, the lines of the config file)
\* with check_inputs' lists sam_files and dataset_metadata
Options(database_exists, build_known, use_cb_tag, existing_datasets, config) ==
    [database_exists |-> database_exists, build_known |-> build_known,
     use_cb_tag |-> use_cb_tag, existing_datasets |-> existing_datasets,
     config |-> config,
     raised |-> FALSE, sam_files |-> <<>>, dataset_metadata |-> <<>>]

\* a line of the config file: the number of its comma-separated fields, its
\* dataset name (with --cb: the CB tag of the reads of its file), its sam
\* file, whether that file exists and whether its name ends with .sam/.bam
ConfigLine(fields, name, sam, exists, sam_or_bam) ==
    [fields |-> fields, name |-> name, sam |-> sam, exists |-> exists,
     sam_or_bam |-> sam_or_bam]

RECURSIVE check_inputs_loop(_, _)
\* "for line in f:" from line i on.  A line with too few fields raises the
\* IndexError of "curr_sam = line[3]" ("line[2]" with --cb), one with too
\* many the ValueError; with --cb a file that is neither .sam nor .bam
\* leaves "datasets" unbound (NameError) or as the line before left it
\* (RuntimeError on its first name)
check_inputs_loop(st, i) ==
    IF st.raised \/ i > Len(st.config) THEN st
    ELSE LET line == st.config[i]
             known == \/ line.name \in st.existing_datasets
                      \/ line.name \in SeqToSet(st.dataset_metadata)
         IN IF \/ line.fields # (IF st.use_cb_tag THEN 3 ELSE 4)
               \/ ~line.exists
            THEN [st EXCEPT !.raised = TRUE]
            ELSE IF st.use_cb_tag
            THEN IF ~line.sam_or_bam \/ known
                 THEN [st EXCEPT !.raised = TRUE]
                 ELSE check_inputs_loop(
                          [st EXCEPT !.dataset_metadata = Append(@, line.name),
                                     !.sam_files = Append(@, line.sam)], i + 1)
            ELSE Let(IF known \/ line.sam \in SeqToSet(st.sam_files)
                     THEN st
                     ELSE [st EXCEPT !.dataset_metadata = Append(@, line.name)],
                     LAMBDA st1 :
                 IF ~line.sam_or_bam
                 THEN [st1 EXCEPT !.raised = TRUE]
                 ELSE check_inputs_loop([st1 EXCEPT !.sam_files = Append(@, line.sam)],
                                        i + 1))

\* check_inputs with the builds of the database taken to hold every build
check_inputs_any_build(opts) ==
    IF ~opts.database_exists
    THEN [opts EXCEPT !.raised = TRUE]
    ELSE Let(check_inputs_loop(opts, 1), LAMBDA st :
             IF ~st.raised /\ st.sam_files = <<>>
             THEN [st EXCEPT !.raised = TRUE]
             ELSE st)

check_inputs(opts) ==
    IF ~opts.database_exists \/ ~opts.build_known
    THEN [opts EXCEPT !.raised = TRUE]
    ELSE Let(check_inputs_loop(opts, 1), LAMBDA st :
             IF ~st.raised /\ st.sam_files = <<>>
             THEN [st EXCEPT !.raised = TRUE]
             ELSE st)

\* the database before the run: the two genes of chr1 and nothing else
LoadedDatabase ==
    [genes |-> <<Str(1), Str(2)>>,
     transcripts |-> <<Str(1), Str(2)>>,
     edge |-> <<Str(1), Str(2), Str(3), Str(4), Str(5)>>,
     location |-> <<Str(1), Str(2), Str(3), Str(4), Str(5), Str(6)>>,
     vertex |-> << <<Str(3), Str(1)>>, <<Str(4), Str(1)>>, <<Str(5), Str(1)>>,
                   <<Str(6), Str(1)>>, <<Str(1), Str(2)>>, <<Str(2), Str(2)>>,
                   <<Str(3), Str(2)>>, <<Str(4), Str(2)>> >>,
     dataset |-> <<>>,
     observed |-> <<>>,
     abundance |-> <<>>,
     gene_annotations |-> <<>>,
     transcript_annotations |-> <<>>,
     exon_annotations |-> <<>>,
     counters |-> LoadedCounters]

\* the values of --threads a run can be started with
ThreadsOptions == {1, 2, 3}

\* a pool of as many processes as --threads says
PoolSizeAsGiven(n) == n

\* main: "threads = int(options.threads)", "if threads < 2: threads = 2"
PoolSize(n) == IF n < 2 THEN 2 ELSE n

Init ==
    /\ mpc = "start"
    /\ threads \in {PoolSize(n) : n \in ThreadsOptions}
    /\ datasets = <<>>
    /\ counters = LoadedCounters
    /\ \E r1 \in JobReads(1), r2 \in JobReads(2) :
          jobs = [j \in Jobs |->
                    [state |-> "pending",
                     reads |-> IF j = 1 THEN r1 ELSE r2,
                     sc |-> NoShard,
                     run_info |-> RunInfo(FALSE)]]
    /\ nread = [j \in Jobs |-> 0]
    /\ queue = <<>> /\ taken = <<>> /\ lpc = "off" /\ lstop = <<>>
    /\ files = [f \in Files |-> <<>>]
    /\ db = LoadedDatabase
    /\ txn = LoadedDatabase
    /\ upc = "off" /\ steps = <<>> /\ reported = {}
    /\ options = check_inputs(Options(TRUE, TRUE, FALSE, {},
                      [d \in 1..NumDatasets |->
                          ConfigLine(4, DatasetName(d), DatasetName(d), TRUE, TRUE)]))
    /\ CounterOff
    /\ ShardOff

RECURSIVE IncrementTimes(_, _)
\* the value of a Counter after n increment() calls
IncrementTimes(v, n) == IF n = 0 THEN v ELSE IncrementTimes(CIntInc(v), n - 1)

\* main: "d_id = dataset_counter.increment()" for every dataset of the
\* config file, dataset_db_entries
M_datasets ==
    /\ mpc = "start"
    /\ counters' = [counters EXCEPT
                        !.dataset = IncrementTimes(@, Len(options.dataset_metadata))]
    /\ datasets' = [d \in 1..Len(options.dataset_metadata) |->
                       <<Str(IncrementTimes(counters.dataset, d)),
                         options.dataset_metadata[d]>>]
    /\ mpc' = "launch"
    /\ UNCHANGED <<threads, jobs, nread, lvars, uvars, nonpvars>>

\* main: "pool.apply_async(listener, ...)" and "pool.starmap(parallel_talon, jobs)"
M_launch ==
    /\ mpc = "launch"
    /\ mpc' = "starmap"
    /\ lpc' = "submitted"
    /\ jobs' = [j \in Jobs |-> [jobs[j] EXCEPT !.state = "submitted"]]
    /\ UNCHANGED <<threads, datasets, counters, nread, queue, taken, lstop, files, uvars, nonpvars>>

\* the jobs that occupy a process of the pool; the listener occupies one
\* from the start (its task is the first of the task queue) to its return
Running == {j \in Jobs : jobs[j].state = "running"}
ListenerBusy == IF lpc \in {"submitted", "listening"} THEN 1 ELSE 0

\* parallel_talon up to its loop: a free process of the pool takes the next
\* job of the task queue and prepares the data structures of its interval
W_start(j) ==
    /\ jobs[j].state = "submitted"
    /\ \A k \in Jobs : k < j => jobs[k].state # "submitted"
    /\ Cardinality(Running) + ListenerBusy < threads
    /\ jobs' = [jobs EXCEPT ![j].state = "running",
                            ![j].sc = prepare_data_structures(JobChrom(j), counters,
                                                              jobs[j].run_info)]
    /\ UNCHANGED <<mvars, counters, nread, lvars, uvars, nonpvars>>

\* the query_name of the n-th read of job j
ReadName(j, n) == <<"r">> \o Str(j) \o <<"_">> \o Str(n)

Chars(str) == IF str = "+" THEN <<"+">> ELSE <<"-">>

\* "\t".join([str(x) for x in entry]) for an annotation entry
AnnotLine(entry, run_info) ==
    <<Str(entry[1]), run_info.idprefix, <<"T", "A", "L", "O", "N">>, entry[2], entry[3]>>

AnnotMsgs(file, entries, run_info) ==
    [k \in 1..Len(entries) |-> Msg(file, AnnotLine(entries[k], run_info))]

\* unpack_observed's line: the columns the classifier supplies (read_length
\* and the custom tags are copied from the record)
ObservedLine(obs_ID, ann, read_ID, dataset) ==
    <<Str(obs_ID), Str(ann.gene_ID), Str(ann.transcript_ID), read_ID, dataset,
      Str(ann.start_vertex), Str(ann.end_vertex), Str(ann.start_exon), Str(ann.end_exon),
      StrOpt(ann.start_delta), StrOpt(ann.end_delta)>>

\* the loop body annotating every record, whatever check_read_quality said
W_read_without_qc(j, group_pick) ==
    /\ jobs[j].state = "running"
    /\ jobs[j].reads # <<>>
    /\ LET read == Head(jobs[j].reads)
           read_ID == ReadName(j, nread[j] + 1)
           qc_msg == Msg("qc", <<read_ID, StrBool(read.passed_qc)>>)
       IN IF TRUE
          THEN \E s \in {annotate_read([jobs[j].sc EXCEPT !.cnt = counters,
                                                          !.group_pick = group_pick],
                                       read)} :
               LET ann == s.ret
                   obs_ID == CIntInc(s.cnt.observed)
               IN /\ queue' = queue
                              \o <<qc_msg,
                                   Msg("observed",
                                       ObservedLine(obs_ID, ann, read_ID, DatasetName(1)))>>
                              \o AnnotMsgs("gene_annot", ann.gene_novelty, s.run_info)
                              \o AnnotMsgs("transcript_annot", ann.transcript_novelty,
                                           s.run_info)
                              \o AnnotMsgs("exon_annot", ann.exon_novelty, s.run_info)
                  /\ counters' = [s.cnt EXCEPT !.observed = obs_ID]
                  /\ jobs' = [jobs EXCEPT ![j].reads = Tail(@),
                                          ![j].sc = [s EXCEPT !.ret = None,
                                                              !.group_pick = "none"]]
          ELSE /\ queue' = Append(queue, qc_msg)
               /\ counters' = counters
               /\ jobs' = [jobs EXCEPT ![j].reads = Tail(@)]
    /\ nread' = [nread EXCEPT ![j] = @ + 1]
    /\ UNCHANGED <<mvars, taken, lpc, lstop, files, uvars, nonpvars>>

\* parallel_talon: one iteration of "for record in sam"
W_read(j, group_pick) ==
    /\ jobs[j].state = "running"
    /\ jobs[j].reads # <<>>
    /\ LET read == Head(jobs[j].reads)
           read_ID == ReadName(j, nread[j] + 1)
           qc_msg == Msg("qc", <<read_ID, StrBool(read.passed_qc)>>)
       IN IF read.passed_qc
          THEN \E s \in {annotate_read([jobs[j].sc EXCEPT !.cnt = counters,
                                                          !.group_pick = group_pick],
                                       read)} :
               LET ann == s.ret
                   obs_ID == CIntInc(s.cnt.observed)
               IN /\ queue' = queue
                              \o <<qc_msg,
                                   Msg("observed",
                                       ObservedLine(obs_ID, ann, read_ID, DatasetName(1)))>>
                              \o AnnotMsgs("gene_annot", ann.gene_novelty, s.run_info)
                              \o AnnotMsgs("transcript_annot", ann.transcript_novelty,
                                           s.run_info)
                              \o AnnotMsgs("exon_annot", ann.exon_novelty, s.run_info)
                  /\ counters' = [s.cnt EXCEPT !.observed = obs_ID]
                  /\ jobs' = [jobs EXCEPT ![j].reads = Tail(@),
                                          ![j].sc = [s EXCEPT !.ret = None,
                                                              !.group_pick = "none"]]
          ELSE /\ queue' = Append(queue, qc_msg)
               /\ counters' = counters
               /\ jobs' = [jobs EXCEPT ![j].reads = Tail(@)]
    /\ nread' = [nread EXCEPT ![j] = @ + 1]
    /\ UNCHANGED <<mvars, taken, lpc, lstop, files, uvars, nonpvars>>

\* the entries created during the run (type(x) is dict), in the dict's order
Novel(d) == FilterSeq(d, LAMBDA x : x.novel)

RECURSIVE V2GLines(_)
\* the lines of vertex_2_gene, by vertex and gene (the program emits them in
\* the iteration order of a dict of sets; no reader depends on their order)
V2GLines(pairs) ==
    IF pairs = {} THEN <<>>
    ELSE LET m == CHOOSE x \in pairs : \A y \in pairs :
                     x[1] < y[1] \/ (x[1] = y[1] /\ x[2] <= y[2])
         IN <<Msg("v2g", <<Str(m[1]), Str(m[2])>>)>> \o V2GLines(pairs \ {m})

\* parallel_talon after the loop: the temp_gene table, then the new
\* transcripts, edges and locations, then vertex_2_gene
W_flush(j) ==
    /\ jobs[j].state = "running"
    /\ jobs[j].reads = <<>>
    /\ LET sc == jobs[j].sc
           genes == [k \in 1..Len(sc.tmp_gene) |->
                        Msg("genes", <<Str(sc.tmp_gene[k].gene_ID),
                                       Chars(sc.tmp_gene[k].strand)>>)]
           nt == Novel(sc.transcript_dict)
           transcripts == [k \in 1..Len(nt) |->
                        Msg("transcripts",
                            <<Str(nt[k].transcript_ID), Str(nt[k].gene_ID),
                              Str(nt[k].start_exon),
                              IF nt[k].jn_path = NoneNum THEN StrNone ELSE nt[k].jn_path[1],
                              Str(nt[k].end_exon), Str(nt[k].start_vertex),
                              Str(nt[k].end_vertex), Str(nt[k].n_exons)>>)]
           ne == Novel(sc.edge_dict)
           edges == [k \in 1..Len(ne) |->
                        Msg("edges", <<Str(ne[k].edge_ID), Str(ne[k].v1), Str(ne[k].v2),
                                       ne[k].edge_type, Chars(ne[k].strand)>>)]
           nl == Novel(sc.location_dict)
           locations == [k \in 1..Len(nl) |->
                        Msg("location", <<Str(nl[k].location_ID), "build",
                                          nl[k].chromosome, Str(nl[k].position)>>)]
           v2g == V2GLines({<<m[1], m[2]>> : m \in sc.vertex_2_gene})
       IN queue' = queue \o genes \o transcripts \o edges \o locations \o v2g
    /\ jobs' = [jobs EXCEPT ![j].state = "returned"]
    /\ UNCHANGED <<mvars, counters, nread, taken, lpc, lstop, files, uvars, nonpvars>>

\* listener up to its loop: opens every outfile for writing and writes the
\* header of the QC file
L_start ==
    /\ lpc = "submitted"
    /\ lpc' = "listening"
    /\ files' = [f \in Files |-> IF f = "qc" THEN << <<"header">> >> ELSE <<>>]
    /\ UNCHANGED <<mvars, wvars, queue, taken, lstop, uvars, nonpvars>>

\* a listener that takes the message and writes nothing
write_nothing(open_files, msg) == open_files

\* "open_files[msg_fname].write(msg_value + "\n")"
write(open_files, msg) == [open_files EXCEPT ![msg.file] = Append(@, msg.value)]

\* listener: one iteration of its loop; late is "datetime.now() > wait_until"
L_get(late) ==
    /\ lpc = "listening"
    /\ queue # <<>>
    /\ LET msg == Head(queue)
       IN /\ queue' = Tail(queue)
          /\ taken' = Append(taken, msg)
          /\ IF late \/ msg.value = <<"complete">>
             THEN /\ lpc' = "closed"
                  /\ lstop' = [late |-> late, msg |-> msg]
                  /\ files' = files
             ELSE /\ lpc' = lpc
                  /\ lstop' = lstop
                  /\ files' = write(files, msg)
    /\ UNCHANGED <<mvars, wvars, uvars, nonpvars>>

\* starmap returns when every job has returned
AllReturned == \A j \in Jobs : jobs[j].state = "returned"

\* main: "queue.put(msg_done)" and "pool.close()"
M_sentinel ==
    /\ mpc = "starmap"
    /\ AllReturned
    /\ queue' = Append(queue, msg_done)
    /\ mpc' = "join"
    /\ UNCHANGED <<threads, datasets, wvars, taken, lpc, lstop, files, uvars, nonpvars>>

\* a join that does not wait
PoolIdleAlways == TRUE

\* pool.join() returns when the processes of the pool have exited, which
\* they do when no task is left and none is running
PoolIdle == AllReturned /\ lpc = "closed"

\* main: "pool.join()", then the call of update_database
M_join ==
    /\ mpc = "join"
    /\ PoolIdle
    /\ mpc' = "update_database"
    /\ upc' = "batch_add_genes"
    /\ UNCHANGED <<threads, datasets, wvars, lvars, db, txn, steps, reported, nonpvars>>

(***************************************************************************)
(* update_database.  A table holds the primary keys of its rows; the       *)
(* statements of the connection are one transaction, which a new           *)
(* connection sees once conn.commit() has run.                             *)
(***************************************************************************)
\* the statements with the commit before the check
StatementsSwapped ==
    <<"batch_add_genes", "batch_add_transcripts", "batch_add_edges",
      "batch_add_locations", "batch_add_vertex2gene", "add_datasets",
      "batch_add_observed", "update_counter", "batch_add_annotations_gene",
      "batch_add_annotations_transcript", "batch_add_annotations_exon",
      "commit", "check_database_integrity">>

\* the statements of update_database, in the order of its body
Statements ==
    <<"batch_add_genes", "batch_add_transcripts", "batch_add_edges",
      "batch_add_locations", "batch_add_vertex2gene", "add_datasets",
      "batch_add_observed", "update_counter", "batch_add_annotations_gene",
      "batch_add_annotations_transcript", "batch_add_annotations_exon",
      "check_database_integrity", "commit">>

\* the statement that follows st
NextStatement(st) ==
    LET i == CHOOSE k \in 1..Len(Statements) : Statements[k] = st
    IN IF i = Len(Statements) THEN "returned" ELSE Statements[i + 1]

RECURSIVE InsertOrIgnore(_, _)
\* INSERT OR IGNORE: a row whose key the table holds is skipped
InsertOrIgnore(table, keys) ==
    IF keys = <<>> THEN table
    ELSE InsertOrIgnore(IF Head(keys) \in SeqToSet(table) THEN table
                        ELSE Append(table, Head(keys)), Tail(keys))

\* INSERT: a row whose key the table holds raises, and the loader exits
Conflict(table, keys) ==
    \/ \E i \in 1..Len(keys) : keys[i] \in SeqToSet(table)
    \/ \E i, k \in 1..Len(keys) : i # k /\ keys[i] = keys[k]

\* the first column of every line of a file
FirstColumn(lines) == [k \in 1..Len(lines) |-> lines[k][1]]

\* a loader that INSERTs the lines of a file into a table
Load(st, table, keys) ==
    /\ upc = st
    /\ IF Conflict(txn[table], keys)
       THEN /\ upc' = "exit"
            /\ UNCHANGED <<txn, steps>>
       ELSE /\ txn' = [txn EXCEPT ![table] = @ \o keys]
            /\ steps' = Append(steps, st)
            /\ upc' = NextStatement(st)
    /\ UNCHANGED <<mvars, wvars, lvars, db, reported, nonpvars>>

\* a loader that INSERTs OR IGNOREs the lines of a file into a table
LoadOrIgnore(st, table, keys) ==
    /\ upc = st
    /\ txn' = [txn EXCEPT ![table] = InsertOrIgnore(@, keys)]
    /\ steps' = Append(steps, st)
    /\ upc' = NextStatement(st)
    /\ UNCHANGED <<mvars, wvars, lvars, db, reported, nonpvars>>

batch_add_genes == LoadOrIgnore("batch_add_genes", "genes", FirstColumn(files["genes"]))

batch_add_transcripts ==
    Load("batch_add_transcripts", "transcripts", FirstColumn(files["transcripts"]))

batch_add_edges == Load("batch_add_edges", "edge", FirstColumn(files["edges"]))

batch_add_locations == Load("batch_add_locations", "location", FirstColumn(files["location"]))

batch_add_vertex2gene == LoadOrIgnore("batch_add_vertex2gene", "vertex", files["v2g"])

add_datasets == Load("add_datasets", "dataset", FirstColumn(datasets))

RECURSIVE Distinct(_, _)
\* the keys of a dict in the order of their first insertion
Distinct(keys, seen) ==
    IF keys = <<>> THEN <<>>
    ELSE IF Head(keys) \in seen THEN Distinct(Tail(keys), seen)
    ELSE <<Head(keys)>> \o Distinct(Tail(keys), seen \cup {Head(keys)})

RECURSIVE Flatten(_)
Flatten(seqs) == IF seqs = <<>> THEN <<>> ELSE Head(seqs) \o Flatten(Tail(seqs))

\* abundance_tuples: (transcript, dataset, count) for every dataset and every
\* transcript of the dataset, in the order of their first observed line
AbundanceTuples(lines) ==
    LET dataset_keys == Distinct([k \in 1..Len(lines) |-> lines[k][5]], {})
        OfDataset(d) == FilterSeq(lines, LAMBDA l : l[5] = d)
        Transcripts(d) == Distinct([k \in 1..Len(OfDataset(d)) |-> OfDataset(d)[k][3]], {})
        Count(d, t) == Len(FilterSeq(OfDataset(d), LAMBDA l : l[3] = t))
    IN Flatten([i \in 1..Len(dataset_keys) |->
                  [k \in 1..Len(Transcripts(dataset_keys[i])) |->
                      <<Transcripts(dataset_keys[i])[k], dataset_keys[i],
                        Count(dataset_keys[i], Transcripts(dataset_keys[i])[k])>>]])

\* batch_add_observed, which ends with batch_add_abundance
batch_add_observed ==
    /\ upc = "batch_add_observed"
    /\ LET keys == FirstColumn(files["observed"])
           abundance == AbundanceTuples(files["observed"])
       IN IF Conflict(txn.observed, keys) \/ Conflict(txn.abundance, abundance)
          THEN /\ upc' = "exit"
               /\ UNCHANGED <<txn, steps>>
          ELSE /\ txn' = [txn EXCEPT !.observed = @ \o keys,
                                     !.abundance = @ \o abundance]
               /\ steps' = steps \o <<"batch_add_observed", "batch_add_abundance">>
               /\ upc' = NextStatement("batch_add_observed")
    /\ UNCHANGED <<mvars, wvars, lvars, db, reported, nonpvars>>

\* an update_counter without its last statement (update_o)
update_counter_but_observed ==
    /\ upc = "update_counter"
    /\ txn' = [txn EXCEPT !.counters = [counters EXCEPT !.observed = txn.counters.observed]]
    /\ steps' = Append(steps, "update_counter")
    /\ upc' = NextStatement("update_counter")
    /\ UNCHANGED <<mvars, wvars, lvars, db, reported, nonpvars>>

\* update_counter: the counters table takes the values of the Counters
update_counter ==
    /\ upc = "update_counter"
    /\ txn' = [txn EXCEPT !.counters = counters]
    /\ steps' = Append(steps, "update_counter")
    /\ upc' = NextStatement("update_counter")
    /\ UNCHANGED <<mvars, wvars, lvars, db, reported, nonpvars>>

\* the key of an annotation line: ID, source and attribute
AnnotKeys(lines) == [k \in 1..Len(lines) |-> <<lines[k][1], lines[k][3], lines[k][4]>>]

batch_add_annotations(annot_type) ==
    LoadOrIgnore("batch_add_annotations_" \o annot_type, annot_type \o "_annotations",
                 AnnotKeys(files[annot_type \o "_annot"]))

\* the rows of the counters table and the table each is compared with
Categories == {"genes", "transcripts", "vertex", "edge", "dataset", "observed"}
\* every category counted in the table of its own name
TableOfSame(category) == category

\* "if table_name == "vertex": table_name = "location""
TableOf(category) == IF category = "vertex" THEN "location" ELSE category

\* a check that finds every table in order
NoMismatches(d) == {}

\* the categories whose table does not hold as many rows as the counter says
Mismatches(d) == {c \in Categories : Len(d[TableOf(c)]) # d.counters[c]}

\* check_database_integrity: logs every table that does not match, then raises
check_database_integrity ==
    /\ upc = "check_database_integrity"
    /\ reported' = {TableOf(c) : c \in Mismatches(txn)}
    /\ steps' = Append(steps, "check_database_integrity")
    /\ upc' = IF Mismatches(txn) # {} THEN "raised"
              ELSE NextStatement("check_database_integrity")
    /\ UNCHANGED <<mvars, wvars, lvars, db, txn, nonpvars>>

\* conn.commit()
commit ==
    /\ upc = "commit"
    /\ db' = txn
    /\ steps' = Append(steps, "commit")
    /\ upc' = NextStatement("commit")
    /\ UNCHANGED <<mvars, wvars, lvars, txn, reported, nonpvars>>

Next ==
    \/ M_datasets
    \/ M_launch
    \/ \E j \in Jobs : W_start(j)
    \/ \E j \in Jobs, g \in GroupPicks : W_read(j, g)
    \/ \E j \in Jobs : W_flush(j)
    \/ L_start
    \/ \E late \in BOOLEAN : L_get(late)
    \/ M_sentinel
    \/ M_join
    \/ batch_add_genes
    \/ batch_add_transcripts
    \/ batch_add_edges
    \/ batch_add_locations
    \/ batch_add_vertex2gene
    \/ add_datasets
    \/ batch_add_observed
    \/ update_counter
    \/ \E annot_type \in {"gene", "transcript", "exon"} : batch_add_annotations(annot_type)
    \/ check_database_integrity
    \/ commit

Spec == Init /\ [][Next]_vars

(***************************************************************************)
(* FairSpec: the run under fair scheduling.  main and the tasks of the     *)
(* pool that have a process are operating-system processes that run        *)
(* whenever they are not blocked: a step of one of them that stays         *)
(* possible is eventually taken.  The fairness of a job's loop and of its  *)
(* return is stated on the part of the step that does not depend on the    *)
(* classification: annotate_read returns for every read, so an iteration   *)
(* of the loop is possible exactly when LoopStep is, and the steps of Next *)
(* that change nread[j] are the iterations of job j's loop.  No fairness   *)
(* is assumed of the listener.                                             *)
(***************************************************************************)
MainSteps == M_datasets \/ M_launch \/ M_sentinel \/ M_join

ListenerSteps == L_start \/ \E late \in BOOLEAN : L_get(late)

\* parallel_talon: an iteration of "for record in sam", as nread sees it
LoopStep(j) ==
    /\ jobs[j].state = "running"
    /\ jobs[j].reads # <<>>
    /\ nread' = [nread EXCEPT ![j] = @ + 1]

\* parallel_talon: the end of the loop and the return, as jobs sees it
ReturnStep(j) ==
    /\ jobs[j].state = "running"
    /\ jobs[j].reads = <<>>
    /\ jobs' = [jobs EXCEPT ![j].state = "returned"]

FairSpec ==
    /\ Init /\ [][Next]_vars
    /\ WF_vars(MainSteps)
    /\ \A j \in Jobs : WF_vars(W_start(j)) /\ WF_nread(LoopStep(j)) /\ WF_jobs(ReturnStep(j))

----------------------------------------------------------------------------
(***************************************************************************)
(* SpecInputs: main from get_args to the launch of the pool's tasks, on    *)
(* every set of options over config files of up to MaxConfigLines lines.   *)
(***************************************************************************)
MaxConfigLines == 2

\* the lines a config file can hold: two dataset names, two sam files, three
\* or four fields, and a line whose file is missing or is no .sam/.bam
ConfigLines ==
    {ConfigLine(fields, DatasetName(d), sam, TRUE, TRUE) :
        fields \in {3, 4}, d \in {1, 2}, sam \in {"x.sam", "y.bam"}}
    \cup {ConfigLine(fields, DatasetName(1), "x.sam", FALSE, TRUE) : fields \in {3, 4}}
    \cup {ConfigLine(fields, DatasetName(1), "x.txt", TRUE, FALSE) : fields \in {3, 4}}

ConfigFiles ==
    UNION {[1..n -> ConfigLines] : n \in 0..MaxConfigLines}

InputsInit ==
    /\ mpc = "main"
    /\ options = <<>>
    /\ threads = 2
    /\ datasets = <<>>
    /\ counters = LoadedCounters
    /\ jobs = [j \in Jobs |->
                 [state |-> "pending",
                  reads |-> <<Read(JobChrom(j), "+", <<50, 60>>, TRUE)>>,
                  sc |-> NoShard, run_info |-> RunInfo(FALSE)]]
    /\ nread = [j \in Jobs |-> 0]
    /\ queue = <<>> /\ taken = <<>> /\ lpc = "off" /\ lstop = <<>>
    /\ files = [f \in Files |-> <<>>]
    /\ db = LoadedDatabase
    /\ txn = LoadedDatabase
    /\ upc = "off" /\ steps = <<>> /\ reported = {}
    /\ CounterOff
    /\ ShardOff

\* main: "sam_files, dset_metadata = check_inputs(options)"; an exception
\* of check_inputs ends main
M_check_inputs(opts) ==
    /\ mpc = "main"
    /\ options' = check_inputs(opts)
    /\ mpc' = IF options'.raised THEN "raised" ELSE "start"
    /\ UNCHANGED <<threads, datasets, wvars, lvars, uvars, cvars, svars>>

InputsNext ==
    \/ \E database_exists, build_known, use_cb_tag \in BOOLEAN :
       \E existing_datasets \in {{}, {DatasetName(1)}} : \E config \in ConfigFiles :
          M_check_inputs(Options(database_exists, build_known, use_cb_tag,
                                 existing_datasets, config))
    \/ M_datasets
    \/ M_launch

SpecInputs == InputsInit /\ [][InputsNext]_vars

\* two lines of the config file have the same dataset name
DuplicateName(opts) ==
    \E i, k \in 1..Len(opts.config) : i < k /\ opts.config[i].name = opts.config[k].name

\* a line of the config file has the wrong number of fields or names a file
\* that does not exist
BadLine(opts) ==
    \E i \in 1..Len(opts.config) :
        \/ opts.config[i].fields # (IF opts.use_cb_tag THEN 3 ELSE 4)
        \/ ~opts.config[i].exists

\* main ended in check_inputs: no counter moved, no task was given to the pool
AbortedBeforeRun ==
    /\ mpc = "raised"
    /\ counters = LoadedCounters
    /\ datasets = <<>>
    /\ lpc = "off"
    /\ \A j \in Jobs : jobs[j].state = "pending"

C21_Witness ==
    /\ options # <<>>
    /\ DuplicateName(options)
    /\ ~options.raised
    /\ Len(options.sam_files) = 2
    /\ Len(datasets) = 1
    /\ counters.dataset = LoadedCounters.dataset + 1
    /\ \A j \in Jobs : jobs[j].state = "submitted"

----------------------------------------------------------------------------
(***************************************************************************)
(* Properties of a whole run                                               *)
(***************************************************************************)
\* the tables whose row count differs from the counter of their category
FailingTables(d) ==
    {t \in {"genes", "transcripts", "edge", "observed", "dataset"} :
        Len(d[t]) # d.counters[t]}
    \cup (IF Len(d.location) # d.counters.vertex THEN {"location"} ELSE {})

Committed == Len(steps) > 0 /\ steps[Len(steps)] = "commit"

\* the listener has stopped, and on what
StoppedOnTimeout == lpc = "closed" /\ lstop.late /\ lstop.msg # msg_done
StoppedOnSentinel == lpc = "closed" /\ lstop.msg = msg_done

\* C4: whenever update_database reaches commit, every table of the counters
\* table (genes, transcripts, edge, location for vertex, observed, dataset)
\* holds as many rows as the persisted counter says, in the transaction that
\* is committed and in the database after the commit
C4_CounterTableParity ==
    /\ upc = "commit" => FailingTables(txn) = {}
    /\ Committed => FailingTables(db) = {} /\ db = txn

\* a run that committed new genes, transcripts and observations
C4_Witness ==
    /\ Committed
    /\ Len(db.genes) > Len(LoadedDatabase.genes)
    /\ Len(db.transcripts) > Len(LoadedDatabase.transcripts)
    /\ Len(db.observed) > 0

\* the log of a category and the lines of it that record an ID
LogOf(category) ==
    CASE category = "genes" -> "genes"
      [] category = "transcripts" -> "transcripts"
      [] category = "vertex" -> "location"
      [] category = "edge" -> "edges"
      [] category = "observed" -> "observed"

RecordsOf(category, id) ==
    {k \in 1..Len(files[LogOf(category)]) : files[LogOf(category)][k][1] = Str(id)}

\* C5: when all jobs have returned and the listener has stopped on the
\* sentinel, every ID the gene, transcript, vertex, edge and observed
\* counters handed out during the run is the ID of exactly one line of the
\* log of its category
C5_Lifecycle ==
    (AllReturned /\ StoppedOnSentinel) =>
        \A c \in {"genes", "transcripts", "vertex", "edge", "observed"} :
            \A id \in (LoadedCounters[c] + 1)..counters[c] :
                Cardinality(RecordsOf(c, id)) = 1

\* C6: if the integrity check finds a table whose row count differs from its
\* counter, update_database ends with the error, the database is as it was
\* before the run (no inserted row, no updated counter), and every failing
\* table is reported
C6_IntegrityFailureAborts ==
    (upc \in {"raised", "commit", "returned"} /\ FailingTables(txn) # {}) =>
        /\ upc = "raised"
        /\ db = LoadedDatabase
        /\ reported = FailingTables(txn)

\* a failed check that reports two tables, after rows and counters changed
C6_Witness ==
    /\ upc = "raised"
    /\ Cardinality(reported) >= 2
    /\ txn.counters # LoadedDatabase.counters
    /\ Len(txn.observed) > 0

\* C7: if the listener stopped on its timeout and not on the sentinel, the
\* run commits nothing to the database
C7_TimeoutNeverCommits ==
    StoppedOnTimeout => (~Committed /\ db = LoadedDatabase)

\* C8: update_database starts only after every job has returned and the
\* listener has closed its files, and from then on no job and no listener
\* takes a step (their state, the queue, the files and the Counters stay)
C8_CommitAfterBarrier ==
    /\ [](upc # "off" => AllReturned /\ lpc = "closed")
    /\ [][upc # "off" => UNCHANGED <<wvars, lvars>>]_vars

\* update_database has started after jobs that wrote to the queue
C8_Witness ==
    /\ upc = "batch_add_genes"
    /\ AllReturned
    /\ lpc = "closed"
    /\ Len(taken) > 1

\* the sentinel has been put on the queue
SentinelEnqueued ==
    \/ \E k \in 1..Len(queue) : queue[k] = msg_done
    \/ \E k \in 1..Len(taken) : taken[k] = msg_done

\* C38: with the pool forced to at least 2 processes, under fair scheduling
\* of main and of the jobs every job eventually returns and the sentinel is
\* eventually put on the queue, whatever the listener does (no job waits
\* for the listener to take a message); if the listener is scheduled fairly
\* too, it eventually stops and update_database is eventually called
C38_FairTermination ==
    /\ \A j \in Jobs : <>(jobs[j].state = "returned")
    /\ <>SentinelEnqueued
    /\ WF_vars(ListenerSteps) => (<>(lpc = "closed") /\ <>(upc # "off"))

\* a run of a pool of 2 processes in which both jobs returned after they put
\* messages, the listener stopped on the sentinel and update_database began
C38_Witness ==
    /\ threads = 2
    /\ AllReturned
    /\ StoppedOnSentinel
    /\ Len(taken) > 2
    /\ queue = <<>>
    /\ upc # "off"

\* the lines of a file that the messages of a channel history name, in
\* the order of the history
RECURSIVE LinesFor(_, _)
LinesFor(f, msgs) ==
    IF msgs = <<>> THEN <<>>
    ELSE (IF Head(msgs).file = f THEN <<Head(msgs).value>> ELSE <<>>)
         \o LinesFor(f, Tail(msgs))

HeaderOf(f) == IF f = "qc" /\ lpc \in {"listening", "closed"} THEN << <<"header">> >> ELSE <<>>

\* the messages the listener took before the one it stopped on
Delivered == IF lpc = "closed" THEN SubSeq(taken, 1, Len(taken) - 1) ELSE taken

Sent == taken \o queue

\* C9: as long as the listener has not timed out, every file holds exactly
\* the lines of the messages taken for it, once each and in the order of the
\* queue; the sentinel is put on the queue only after every job has
\* returned; the listener stops when it takes the sentinel, and then (no
\* timeout) every message any job has put is written and none is left
C9_ChannelDelivery ==
    /\ ~StoppedOnTimeout =>
          \A f \in Files : files[f] = HeaderOf(f) \o LinesFor(f, Delivered)
    /\ (\E i \in 1..Len(Sent) : Sent[i] = msg_done) => AllReturned
    /\ (\E i \in 1..Len(taken) : taken[i] = msg_done) =>
          /\ lpc = "closed"
          /\ taken[Len(taken)] = msg_done
    /\ (lpc = "closed" /\ ~StoppedOnTimeout) =>
          /\ queue = <<>>
          /\ \A i \in 1..(Len(taken) - 1) : taken[i] # msg_done

\* the listener stopped on the sentinel after it wrote lines of two jobs
C9_Witness ==
    /\ StoppedOnSentinel
    /\ ~lstop.late
    /\ Len(files["transcripts"]) > 1
    /\ Len(files["observed"]) > 1
    /\ Len(files["v2g"]) > 1

\* the loads of update_database in the order of their tables
LoadOrder ==
    <<"batch_add_genes", "batch_add_transcripts", "batch_add_edges",
      "batch_add_locations", "batch_add_vertex2gene", "add_datasets",
      "batch_add_observed", "batch_add_abundance", "batch_add_annotations_gene",
      "batch_add_annotations_transcript", "batch_add_annotations_exon">>

IsLoad(st) == \E i \in 1..Len(LoadOrder) : LoadOrder[i] = st

IsPrefix(a, b) == Len(a) <= Len(b) /\ a = SubSeq(b, 1, Len(a))

Done(st, n) == \E i \in 1..n : steps[i] = st

\* C10: the loads run in the order genes, transcripts, edges, locations,
\* vertex-to-gene, datasets, observed, abundance, annotations; the integrity
\* check runs after every load and the counter update; commit runs only
\* after a check that passed
C10_LoadOrder ==
    /\ IsPrefix(SelectSeq(steps, IsLoad), LoadOrder)
    /\ \A i \in 1..Len(steps) :
          /\ steps[i] = "check_database_integrity" =>
                /\ \A k \in 1..Len(LoadOrder) : Done(LoadOrder[k], i - 1)
                /\ Done("update_counter", i - 1)
          /\ steps[i] = "commit" =>
                /\ Done("check_database_integrity", i - 1)
                /\ reported = {}
                /\ FailingTables(txn) = {}

\* update_database has run to its commit
C10_Witness ==
    /\ Committed
    /\ Len(steps) = 14
    /\ Len(txn.gene_annotations) > 0

\* the six rows of the counters table
SixCounters == {"genes", "transcripts", "edge", "vertex", "dataset", "observed"}

\* C11: once update_counter has run, the six counters of the transaction
\* equal the in-memory Counters, which no longer change; so at commit each
\* persisted counter equals the final value of its Counter
C11_CountersPersisted ==
    /\ [](Done("update_counter", Len(steps)) =>
            \A c \in SixCounters : txn.counters[c] = counters[c])
    /\ [](Committed => \A c \in SixCounters : db.counters[c] = counters[c])
    /\ [][Done("update_counter", Len(steps)) => counters' = counters]_vars

\* a committed run in which five of the Counters handed out IDs
C11_Witness ==
    /\ Committed
    /\ \A c \in SixCounters \ {"edge"} : db.counters[c] > LoadedCounters[c]

\* the messages a step put on the queue
Put == SubSeq(queue', Len(queue) + 1, Len(queue'))

\* C20: a step of the loop on a read that failed QC puts exactly one QC
\* record and nothing else on the queue, changes no counter (the observed
\* counter included) and leaves the shard's graph state as it was; a step on
\* any read, passing or failing, puts exactly one QC record
C20_FailedQCFrame ==
    [][\A j \in Jobs : nread'[j] = nread[j] + 1 =>
          /\ Len(queue') > Len(queue)
          /\ SubSeq(queue', 1, Len(queue)) = queue
          /\ Cardinality({k \in 1..Len(Put) : Put[k].file = "qc"}) = 1
          /\ ~Head(jobs[j].reads).passed_qc =>
                /\ Len(Put) = 1
                /\ Put[1].value[2] = StrBool(FALSE)
                /\ counters' = counters
                /\ jobs'[j].sc = jobs[j].sc]_vars

\* job 1 has processed the read that failed QC: its QC record is the only
\* message on the queue, no read has been observed and the shard's data
\* structures are as prepare_data_structures made them
C20_Witness ==
    /\ nread[1] = 1
    /\ jobs[1].reads = <<Read("chr1", "-", <<19, 12>>, TRUE)>>
    /\ counters.observed = LoadedCounters.observed
    /\ jobs[1].sc = prepare_data_structures("chr1", counters, jobs[1].run_info)
    /\ queue = <<Msg("qc", <<ReadName(1, 1), StrBool(FALSE)>>)>>

\* the vertices / edges a job has created
CreatedVertices(j) ==
    IF jobs[j].sc.loaded THEN SeqToSet(Novel(jobs[j].sc.location_dict)) ELSE {}

CreatedEdges(j) ==
    IF jobs[j].sc.loaded THEN SeqToSet(Novel(jobs[j].sc.edge_dict)) ELSE {}

\* C22: with shards on disjoint intervals, under every interleaving no two
\* workers have created a vertex for the same (chromosome, position) or an
\* edge for the same (v1, v2, type), nor given two of them the same ID; a
\* step that changes one worker's data structures changes no other worker's
\* (what the workers share is the Counters and the queue)
C22_ShardsNeverContend ==
    /\ [](\A j, k \in Jobs : j # k =>
            /\ \A v \in CreatedVertices(j), w \in CreatedVertices(k) :
                  /\ <<v.chromosome, v.position>> # <<w.chromosome, w.position>>
                  /\ v.location_ID # w.location_ID
            /\ \A e \in CreatedEdges(j), f \in CreatedEdges(k) :
                  /\ <<e.v1, e.v2, e.edge_type>> # <<f.v1, f.v2, f.edge_type>>
                  /\ e.edge_ID # f.edge_ID)
    /\ [][\A j \in Jobs : jobs'[j].sc # jobs[j].sc =>
              \A k \in Jobs \ {j} : jobs'[k] = jobs[k]]_vars

\* both workers are running and each has created vertices at 50 and 60 of
\* its chromosome and the exon between them
C22_Witness ==
    \A j \in Jobs :
        /\ jobs[j].state = "running"
        /\ {50, 60} \subseteq {v.position : v \in CreatedVertices(j)}
        /\ \E e \in CreatedEdges(j) : e.edge_type = "exon"

\* every entry of the index is an entry of the index after the step
Kept(index, index_after) ==
    \A i \in 1..Len(index) : \E k \in 1..Len(index_after) : index_after[k] = index[i]

\* C23: classifying a read only adds entries: every vertex, edge and
\* transcript record of the shard's indices is still there, as it was, after
\* the read, and vertex_2_gene only grows
C23_GraphOnlyGrows ==
    [][(shard.loaded /\ shard'.loaded) =>
          /\ Kept(shard.location_dict, shard'.location_dict)
          /\ Kept(shard.edge_dict, shard'.edge_dict)
          /\ Kept(shard.transcript_dict, shard'.transcript_dict)
          /\ shard.vertex_2_gene \subseteq shard'.vertex_2_gene]_vars

\* C24: create_transcript never gets an edge set that is already a key of
\* transcript_dict (a transcript created by a step is indexed under a key
\* the index did not have), so every transcript ID of the shard, loaded or
\* allocated, stays indexed under an edge set of its own
C24_TranscriptCreatedOnce ==
    /\ [][(shard.loaded /\ shard'.loaded) =>
             \A k \in 1..Len(shard'.transcript_dict) :
                 shard'.transcript_dict[k].transcript_ID > shard.cnt.transcripts =>
                     \A i \in 1..Len(shard.transcript_dict) :
                         shard.transcript_dict[i].key # shard'.transcript_dict[k].key]_vars
    /\ [](shard.loaded =>
            \A id \in 1..shard.cnt.transcripts :
                Cardinality({k \in 1..Len(shard.transcript_dict) :
                                shard.transcript_dict[k].transcript_ID = id}) = 1)

====
